---------------------------- MODULE Spec2Model ----------------------------
(***************************************************************************)
(* A model of the QR Code encoder of src/qrcode.py: argument validation,   *)
(* version and error-correction-level selection, payload padding, block    *)
(* splitting with Reed-Solomon error correction, interleaving, functional  *)
(* patterns, data placement, mask selection by penalty and format bits.    *)
(* Python lists are 0-indexed; the grids blocks[y][x] and isfunction[y][x] *)
(* and all byte and bit lists are TLA+ sequences: item i of a Python list   *)
(* is item i+1 of the sequence, the module (x, y) is blocks[y + 1][x + 1]. *)
(***************************************************************************)
EXTENDS Integers, Sequences, FiniteSets, TLC

VARIABLES
    pc,              \* position of QR.__init__ (or of the function applied)
    err,             \* "" | "ValueError" | "CapacityError" | "IndexError": exception raised
    data,            \* argument data: the payload, one code point per character
    minversion,      \* argument minversion
    maxversion,      \* argument maxversion
    ecl,             \* argument ecl (the caller's minimum level)
    mask,            \* argument mask (-1: automatic), then the chosen mask
    version,         \* self.version (0: not yet set)
    self_ecl,        \* self.ecl ("": not yet set)
    size,            \* self.size (0: not yet set)
    blocks,          \* self.blocks (<<>>: not yet allocated)
    isfunction,      \* self.isfunction (<<>>: not yet allocated)
    encoded_payload, \* local encoded_payload of __init__ (<<>>: not yet padded)
    payload,         \* self.payload, the interleaved stream (<<>>: not yet set)
    i,               \* loop variable of the mask loop
    penalty,         \* local penalty of the mask loop (-1: none yet)
    min_penalty,     \* local min_penalty (-1 stands for float('inf'))
    call,            \* the arguments of a function applied on its own (<<>>: none)
    ret              \* what that function returned (<<>>: nothing yet)

vars == <<pc, err, data, minversion, maxversion, ecl, mask, version, self_ecl,
          size, blocks, isfunction, encoded_payload, payload, i, penalty,
          min_penalty, call, ret>>

\* groups of variables, for UNCHANGED
args == <<data, minversion, maxversion, ecl>>
symbol == <<size, blocks, isfunction>>
streams == <<encoded_payload, payload>>
loop == <<i, penalty, min_penalty>>
fn == <<call, ret>>

-----------------------------------------------------------------------------
(* Python integer arithmetic *)

\* a sequence given as a function, with its items evaluated once
Items(s) == s \o <<>>

\* e, with v evaluated before it: the value a loop carries into its next
\* pass is computed by the pass that assigns it, as in the source, and not
\* on demand by a later pass
Then(v, e) == IF v = v THEN e ELSE e

\* Loops over an index range lo..hi are written as the passes lo..mid
\* followed by the passes mid+1..hi: the same passes in the same order, with
\* an evaluation depth logarithmic in the number of passes.
Mid(lo, hi) == (lo + hi) \div 2

Pow2(n) == 2 ^ n

\* x >> n and x << n on Python's unbounded integers (>> floors)
ShiftR(x, n) == x \div Pow2(n)
ShiftL(x, n) == x * Pow2(n)

\* mutant of get_bit: reads the bit above
get_bit_off_by_one(d, index) == ShiftR(d, index + 1) % 2

\* get_bit(data, index): (data >> index) & 1
get_bit(d, index) == ShiftR(d, index) % 2

\* a ^ b on Python integers (two's complement with infinitely many sign bits),
\* bit by bit
RECURSIVE BitXorInt(_, _)
BitXorInt(a, b) ==
    IF a = 0 THEN b
    ELSE IF b = 0 THEN a
    ELSE IF a = -1 THEN -b - 1
    ELSE IF b = -1 THEN -a - 1
    ELSE 2 * BitXorInt(a \div 2, b \div 2) + (((a % 2) + (b % 2)) % 2)

\* a ^ b for 0 <= a, b < 16, tabulated: item a+1, b+1
XorNibbles == Items([a \in 1..16 |-> Items([b \in 1..16 |-> BitXorInt(a - 1, b - 1)])])

\* a ^ b for 0 <= a, b < 2^12, four bits at a time
Xor12(a, b) ==
    XorNibbles[(a % 16) + 1][(b % 16) + 1]
    + 16 * XorNibbles[((a \div 16) % 16) + 1][((b \div 16) % 16) + 1]
    + 256 * XorNibbles[(a \div 256) + 1][(b \div 256) + 1]

\* a & b and a | b for 0 <= a, b < 2^12
And12(a, b) == (a + b - Xor12(a, b)) \div 2
Or12(a, b) == a + b - And12(a, b)

\* a ^ b on Python integers, twelve bits at a time
RECURSIVE BitXor(_, _)
BitXor(a, b) ==
    IF a = 0 THEN b
    ELSE IF b = 0 THEN a
    ELSE IF a = -1 THEN -b - 1
    ELSE IF b = -1 THEN -a - 1
    ELSE 4096 * BitXor(a \div 4096, b \div 4096) + Xor12(a % 4096, b % 4096)

\* a | b on Python integers
RECURSIVE BitOr(_, _)
BitOr(a, b) ==
    IF a = 0 THEN b
    ELSE IF b = 0 THEN a
    ELSE IF a = -1 \/ b = -1 THEN -1
    ELSE 4096 * BitOr(a \div 4096, b \div 4096) + Or12(a % 4096, b % 4096)

\* a & b on Python integers
RECURSIVE BitAnd(_, _)
BitAnd(a, b) ==
    IF a = 0 \/ b = 0 THEN 0
    ELSE IF a = -1 THEN b
    ELSE IF b = -1 THEN a
    ELSE 4096 * BitAnd(a \div 4096, b \div 4096) + And12(a % 4096, b % 4096)

-----------------------------------------------------------------------------
(* Lookup tables and capacity *)

\* ecl_lookup: level -> (table ordinal, format bits)
ecl_lookup ==
    [L |-> <<0, 1>>, M |-> <<1, 0>>, Q |-> <<2, 3>>, H |-> <<3, 2>>]

ECLS == DOMAIN ecl_lookup

\* byte_mode = Mode(0x4, (8, 16, 16))
byte_mode == [modebits |-> 4, charcount |-> <<8, 16, 16>>]

\* mutant of get_num_char_count_bits: the 16-bit width starts one version late
get_num_char_count_bits_late(v) == byte_mode.charcount[((v + 6) \div 17) + 1]

\* Mode.get_num_char_count_bits (called with 1 <= version <= 40 only)
get_num_char_count_bits(v) == byte_mode.charcount[((v + 7) \div 17) + 1]

\* get_num_data_bytes: data + EC bits available in a version
get_num_data_bytes(v) ==
    LET res0 == (((16 * v) + 128) * v) + 64
        num_align_patterns == (v \div 7) + 2
        res1 == IF v >= 2
                THEN res0 - ((((25 * num_align_patterns) - 10) * num_align_patterns) - 55)
                ELSE res0
    IN  IF v >= 7 THEN res1 - 36 ELSE res1

ecp_lookup_table == <<
    <<7,  10, 15, 20, 26, 18, 20, 24, 30, 18, 20, 24, 26, 30, 22, 24, 28, 30, 28, 28, 28, 28, 30, 30, 26, 28, 30, 30, 30, 30, 30, 30, 30, 30, 30, 30, 30, 30, 30, 30>>,
    <<10, 16, 26, 18, 24, 16, 18, 22, 22, 26, 30, 22, 22, 24, 24, 28, 28, 26, 26, 26, 26, 28, 28, 28, 28, 28, 28, 28, 28, 28, 28, 28, 28, 28, 28, 28, 28, 28, 28, 28>>,
    <<13, 22, 18, 26, 18, 24, 18, 22, 20, 24, 28, 26, 24, 20, 30, 24, 28, 28, 26, 30, 28, 30, 30, 30, 30, 28, 30, 30, 30, 30, 30, 30, 30, 30, 30, 30, 30, 30, 30, 30>>,
    <<17, 28, 22, 16, 22, 28, 26, 26, 24, 28, 24, 28, 22, 24, 24, 30, 28, 28, 26, 28, 30, 24, 30, 30, 30, 30, 30, 30, 30, 30, 30, 30, 30, 30, 30, 30, 30, 30, 30, 30>> >>

\* get_ecp_per_pile: error correction bytes per block
get_ecp_per_pile(v, e) == ecp_lookup_table[ecl_lookup[e][1] + 1][v]

piles_lookup_table == <<
    <<1, 1, 1, 1, 1, 2, 2, 2, 2, 4,  4,  4,  4,  4,  6,  6,  6,  6,  7,  8,  8,  9,  9, 10, 12, 12, 12, 13, 14, 15, 16, 17, 18, 19, 19, 20, 21, 22, 24, 25>>,
    <<1, 1, 1, 2, 2, 4, 4, 4, 5, 5,  5,  8,  9,  9, 10, 10, 11, 13, 14, 16, 17, 17, 18, 20, 21, 23, 25, 26, 28, 29, 31, 33, 35, 37, 38, 40, 43, 45, 47, 49>>,
    <<1, 1, 2, 2, 4, 4, 6, 6, 8, 8,  8, 10, 12, 16, 12, 17, 16, 18, 21, 20, 23, 23, 25, 27, 29, 34, 34, 35, 38, 40, 43, 45, 48, 51, 53, 56, 59, 62, 65, 68>>,
    <<1, 1, 2, 4, 4, 4, 5, 6, 8, 8, 11, 11, 16, 16, 18, 16, 19, 21, 25, 25, 25, 34, 30, 32, 35, 37, 40, 42, 45, 48, 51, 54, 57, 60, 63, 66, 70, 74, 77, 81>> >>

\* get_num_ec_piles: number of blocks
get_num_ec_piles(v, e) == piles_lookup_table[ecl_lookup[e][1] + 1][v]

\* get_capacity: data capacity in bytes
get_capacity(v, e) ==
    (get_num_data_bytes(v) \div 8) - get_ecp_per_pile(v, e) * get_num_ec_piles(v, e)

-----------------------------------------------------------------------------
(* Version and error correction level selection *)

\* used_capacity of optimize_version and optimize_ecl
used_capacity(d, v) == 4 + get_num_char_count_bits(v) + Len(d) * 8

\* the loop test: used_capacity and (used_capacity <= max_capacity)
fits(d, v, e) ==
    used_capacity(d, v) # 0 /\ used_capacity(d, v) <= get_capacity(v, e) * 8

\* mutant of optimize_version: the last version of the range that fits
optimize_version_largest(d, minv, maxv, e) ==
    IF \E v \in minv..maxv : fits(d, v, e)
    THEN CHOOSE v \in minv..maxv :
            fits(d, v, e) /\ \A w \in (v + 1)..maxv : ~fits(d, w, e)
    ELSE 0

\* mutant of optimize_version: returns maxversion where the code raises
optimize_version_no_raise(d, minv, maxv, e) ==
    IF \E v \in minv..maxv : fits(d, v, e)
    THEN CHOOSE v \in minv..maxv :
            fits(d, v, e) /\ \A w \in minv..(v - 1) : ~fits(d, w, e)
    ELSE maxv

\* QR.optimize_version as a loop from version v: the version the ascending
\* scan breaks at, 0 when it raises CapacityError
RECURSIVE optimize_version_from(_, _, _, _)
optimize_version_from(d, v, maxv, e) ==
    IF fits(d, v, e) THEN v
    ELSE IF v >= maxv THEN 0
    ELSE optimize_version_from(d, v + 1, maxv, e)

\* QR.optimize_version (called with 1 <= minversion <= maxversion <= 40)
optimize_version(d, minv, maxv, e) == optimize_version_from(d, minv, maxv, e)

\* mutant of optimize_ecl: scans upwards from L
optimize_ecl_ascending(d, v) ==
    IF fits(d, v, "L") THEN "L"
    ELSE IF fits(d, v, "M") THEN "M"
    ELSE IF fits(d, v, "Q") THEN "Q"
    ELSE "H"

\* mutant of optimize_ecl: keeps the weakest level
optimize_ecl_weakest(d, v) == "L"

\* QR.optimize_ecl: scan H, Q, M, L, break at the first that fits; the loop
\* variable keeps its last value 'L' when none fits
optimize_ecl(d, v) ==
    IF fits(d, v, "H") THEN "H"
    ELSE IF fits(d, v, "Q") THEN "Q"
    ELSE IF fits(d, v, "M") THEN "M"
    ELSE "L"

-----------------------------------------------------------------------------
(* BitStream *)

\* BitStream(): an empty bit list; raised records a ValueError raised by a
\* method, after which the remaining calls of the caller are skipped
BitStream == [data |-> <<>>, raised |-> FALSE]

\* mutant of append_bits: lowest-order bit first
append_bits_lsb_first(b, val, n) ==
    IF b.raised THEN b
    ELSE IF n < 0 \/ ShiftR(val, n) # 0 THEN [b EXCEPT !.raised = TRUE]
    ELSE [b EXCEPT !.data = @ \o [k \in 1..n |-> get_bit(val, k - 1)]]

\* mutant of append_bits: a value that does not fit is cut to its n low bits
append_bits_unchecked(b, val, n) ==
    IF b.raised THEN b
    ELSE [b EXCEPT !.data = @ \o [k \in 1..n |-> get_bit(val, n - k)]]

\* BitStream.append_bits: bits n-1 down to 0 of val are appended
append_bits(b, val, n) ==
    IF b.raised THEN b
    ELSE IF n < 0 \/ ShiftR(val, n) # 0 THEN [b EXCEPT !.raised = TRUE]
    ELSE [b EXCEPT !.data = @ \o [k \in 1..n |-> get_bit(val, n - k)]]

\* int(byte, 2) of the eight characters str(bit) of s[from+1 .. from+8]
parse_byte(s, from) ==
    s[from + 1] * 128 + s[from + 2] * 64 + s[from + 3] * 32 + s[from + 4] * 16
    + s[from + 5] * 8 + s[from + 6] * 4 + s[from + 7] * 2 + s[from + 8]

\* BitStream.convert_to_bytes: the bytes, raised when the length is not a
\* multiple of 8 (or a call before has raised)
convert_to_bytes(b) ==
    IF b.raised \/ Len(b.data) % 8 # 0
    THEN [raised |-> TRUE, bytes |-> <<>>]
    ELSE [raised |-> FALSE,
          bytes |-> Items([k \in 1..(Len(b.data) \div 8) |->
                              parse_byte(b.data, 8 * (k - 1))])]

-----------------------------------------------------------------------------
(* pad_and_terminate *)

\* for char in data: byte_data.append_bits(ord(char), 8), characters lo..hi
RECURSIVE append_chars(_, _, _, _)
append_chars(b, d, lo, hi) ==
    IF lo > hi \/ b.raised THEN b
    ELSE IF lo = hi THEN append_bits(b, d[lo], 8)
    ELSE LET b1 == append_chars(b, d, lo, Mid(lo, hi))
         IN  Then(b1, append_chars(b1, d, Mid(lo, hi) + 1, hi))

alternated_padding == <<236, 17>>

\* passes lo..hi (values of i) of: byte_data.append_bits(alternated_padding[i % 2], 8)
RECURSIVE padding_passes(_, _, _)
padding_passes(b, lo, hi) ==
    IF lo > hi \/ b.raised THEN b
    ELSE IF lo = hi THEN append_bits(b, alternated_padding[(lo % 2) + 1], 8)
    ELSE LET b1 == padding_passes(b, lo, Mid(lo, hi))
         IN  Then(b1, padding_passes(b1, Mid(lo, hi) + 1, hi))

\* while len(byte_data) < capacity: append alternated_padding[i % 2]; i += 1
\* for i from i0: every pass appends 8 bits, so the loop makes
\* ceil((capacity - len) / 8) passes
padding_loop(b, i0, capacity) ==
    IF b.raised \/ ~(Len(b.data) < capacity) THEN b
    ELSE padding_passes(b, i0, i0 + ((capacity - Len(b.data) + 7) \div 8) - 1)

Min(a, b) == IF a <= b THEN a ELSE b

\* mutant of pad_and_terminate: padding starts with 0x11
pad_and_terminate_swapped(d, v, e) ==
    LET b1 == append_bits(BitStream, byte_mode.modebits, 4)
        b2 == append_bits(b1, Len(d), get_num_char_count_bits(v))
        b3 == append_chars(b2, d, 1, Len(d))
        capacity == get_capacity(v, e) * 8
        b4 == append_bits(b3, 0, Min(4, capacity - Len(b3.data)))
        b5 == append_bits(b4, 0, (-Len(b4.data)) % 8)
        b6 == padding_loop(b5, 1, capacity)
    IN  convert_to_bytes(b6)

\* pad_and_terminate(data, version, ecl)
pad_and_terminate(d, v, e) ==
    LET b1 == append_bits(BitStream, byte_mode.modebits, 4)
        b2 == append_bits(b1, Len(d), get_num_char_count_bits(v))
        b3 == append_chars(b2, d, 1, Len(d))
        capacity == get_capacity(v, e) * 8
        b4 == append_bits(b3, 0, Min(4, capacity - Len(b3.data)))
        b5 == append_bits(b4, 0, (-Len(b4.data)) % 8)
        b6 == padding_loop(b5, 0, capacity)
    IN  convert_to_bytes(b6)

-----------------------------------------------------------------------------
(* RSEncoder *)

\* mutant of multiply_pass: no reduction by 0x11D
multiply_pass_no_reduction(x, y, z, k) ==
    BitXor(ShiftL(z, 1), get_bit(y, k) * x)

\* one pass of the loop of RSEncoder.multiply, for bit k of y
multiply_pass(x, y, z, k) ==
    BitXor(BitXor(ShiftL(z, 1), ShiftR(z, 7) * 285), get_bit(y, k) * x)

\* the passes of the loop of RSEncoder.multiply for i = hi down to lo
RECURSIVE multiply_loop(_, _, _, _, _)
multiply_loop(x, y, z, hi, lo) ==
    IF hi < lo THEN z
    ELSE IF hi = lo THEN multiply_pass(x, y, z, hi)
    ELSE LET z1 == multiply_loop(x, y, z, hi, Mid(lo, hi) + 1)
         IN  Then(z1, multiply_loop(x, y, z1, Mid(lo, hi), lo))

\* the test RSEncoder.multiply makes of its arguments: ValueError("Invalid
\* input") when x or y has a bit above the eighth
multiply_raises(x, y) == ShiftR(x, 8) # 0 \/ ShiftR(y, 8) # 0

\* RSEncoder.multiply past the test of its arguments
multiply(x, y) == multiply_loop(x, y, 0, 7, 0)

\* one pass of the outer loop of create_rs_divisor: the inner loop runs j
\* upwards, so res[j+1] is still the old coefficient when res[j] reads it
rs_divisor_pass(res, root, degree) ==
    Items([j \in 1..degree |->
            IF j < degree
            THEN BitXor(multiply(res[j], root), res[j + 1])
            ELSE multiply(res[j], root)])

\* mutant of rs_divisor_step: the root is not advanced between the passes
rs_divisor_step_same_root(st, degree) ==
    <<rs_divisor_pass(st[1], st[2], degree), st[2]>>

\* one pass of the outer loop, st = <<res, root>>: the inner loop, then
\* root = self.multiply(root, 0x02)
rs_divisor_step(st, degree) ==
    <<rs_divisor_pass(st[1], st[2], degree), multiply(st[2], 2)>>

\* passes lo..hi of the outer loop of create_rs_divisor
RECURSIVE rs_divisor_loop(_, _, _, _)
rs_divisor_loop(st, lo, hi, degree) ==
    IF lo > hi THEN st
    ELSE IF lo = hi THEN rs_divisor_step(st, degree)
    ELSE LET st1 == rs_divisor_loop(st, lo, Mid(lo, hi), degree)
         IN  Then(st1, rs_divisor_loop(st1, Mid(lo, hi) + 1, hi, degree))

\* the test create_rs_divisor makes of its argument: ValueError("Invalid
\* degree")
create_rs_divisor_raises(degree) == degree < 1 \/ degree > 255

\* RSEncoder.create_rs_divisor past the test of its argument
create_rs_divisor(degree) ==
    rs_divisor_loop(<<Items([j \in 1..degree |-> IF j = degree THEN 1 ELSE 0]), 1>>,
                    1, degree, degree)[1]

\* one pass of the loop of remainder for data byte b
remainder_step(div, res, b) ==
    LET f == BitXor(b, res[1])
        shifted == Tail(res) \o <<0>>
    IN  Items([k \in 1..Len(div) |-> BitXor(shifted[k], multiply(div[k], f))])

\* passes lo..hi of the loop of remainder (for b in data)
RECURSIVE remainder_loop(_, _, _, _, _)
remainder_loop(div, res, d, lo, hi) ==
    IF lo > hi THEN res
    ELSE IF lo = hi THEN remainder_step(div, res, d[lo])
    ELSE LET res1 == remainder_loop(div, res, d, lo, Mid(lo, hi))
         IN  Then(res1, remainder_loop(div, res1, d, Mid(lo, hi) + 1, hi))

\* RSEncoder.remainder, with self.div = div
remainder(div, d) ==
    remainder_loop(div, Items([k \in 1..Len(div) |-> 0]), d, 1, Len(d))

-----------------------------------------------------------------------------
(* prepare_payload and interleave_data *)

\* data[slice(a, b)] for 0 <= a: items a .. b-1 that exist
Slice(s, a, b) == SubSeq(s, a + 1, Min(b, Len(s)))

\* mutant of piles_pass: the error correction pile is computed after the
\* dummy byte of a short pile has been appended
piles_pass_ecc_of_padded(st, d, div, n, num_short_piles, short_pile_len, ec_bytes_len) ==
    LET pile == Slice(d, st.k, st.k + short_pile_len - ec_bytes_len
                                + (IF n < num_short_piles THEN 0 ELSE 1))
        padded == IF n < num_short_piles THEN Append(pile, 0) ELSE pile
        ecp == remainder(div, padded)
    IN  Then(ecp, [piles |-> Append(st.piles, padded \o ecp), k |-> st.k + Len(pile)])

\* the pass of the loop of prepare_payload for pile n (from 0), st = [piles, k]
\* with k the index into data
piles_pass(st, d, div, n, num_short_piles, short_pile_len, ec_bytes_len) ==
    LET pile == Slice(d, st.k, st.k + short_pile_len - ec_bytes_len
                                + (IF n < num_short_piles THEN 0 ELSE 1))
        ecp == remainder(div, pile)
        padded == IF n < num_short_piles THEN Append(pile, 0) ELSE pile
    IN  Then(ecp, [piles |-> Append(st.piles, padded \o ecp), k |-> st.k + Len(pile)])

\* the passes lo..hi of the loop of prepare_payload
RECURSIVE piles_loop(_, _, _, _, _, _, _, _)
piles_loop(st, d, div, lo, hi, num_short_piles, short_pile_len, ec_bytes_len) ==
    IF lo > hi THEN st
    ELSE IF lo = hi
    THEN piles_pass(st, d, div, lo, num_short_piles, short_pile_len, ec_bytes_len)
    ELSE LET st1 == piles_loop(st, d, div, lo, Mid(lo, hi), num_short_piles,
                               short_pile_len, ec_bytes_len)
         IN  Then(st1, piles_loop(st1, d, div, Mid(lo, hi) + 1, hi, num_short_piles,
                                  short_pile_len, ec_bytes_len))

\* the piles list of prepare_payload(data) for self.version = v, self.ecl = e
prepare_piles(d, v, e) ==
    LET num_ec_piles == get_num_ec_piles(v, e)
        ec_bytes_len == get_ecp_per_pile(v, e)
        num_raw_bytes == get_num_data_bytes(v) \div 8
        num_short_piles == num_ec_piles - (num_raw_bytes % num_ec_piles)
        short_pile_len == num_raw_bytes \div num_ec_piles
        div == create_rs_divisor(ec_bytes_len)
    IN  Then(div, piles_loop([piles |-> <<>>, k |-> 0], d, div, 0, num_ec_piles - 1,
                             num_short_piles, short_pile_len, ec_bytes_len).piles)

\* the (i, j) pairs of interleave_data that append pile[i], in order: item i
\* of every pile j, but for the padding byte of the short piles
interleave_taken(n, short_pile_len, n_ec_bytes_per_pile, n_short_piles, i0, j0) ==
    (i0 # short_pile_len - n_ec_bytes_per_pile) \/ (j0 >= n_short_piles)

\* mutant of interleave_data: the padding byte of short piles is kept
interleave_data_keep_dummy(piles, short_pile_len, n_ec_bytes_per_pile, n_short_piles) ==
    LET n == Len(piles)
        idx == [k \in 1..(Len(piles[1]) * n) |-> <<(k - 1) \div n, (k - 1) % n>>]
    IN  [raised |-> \E k \in DOMAIN idx : idx[k][1] >= Len(piles[idx[k][2] + 1]),
         res |-> Items([k \in DOMAIN idx |-> piles[idx[k][2] + 1][idx[k][1] + 1]])]

\* mutant of interleave_data: the piles one after the other, the padding byte
\* of the short piles skipped
interleave_data_pile_by_pile(piles, short_pile_len, n_ec_bytes_per_pile, n_short_piles) ==
    LET n == Len(piles)
        len == Len(piles[1])
        idx == SelectSeq(
                 [k \in 1..(len * n) |-> <<(k - 1) % len, (k - 1) \div len>>],
                 LAMBDA p : interleave_taken(n, short_pile_len, n_ec_bytes_per_pile,
                                             n_short_piles, p[1], p[2]))
    IN  [raised |-> FALSE,
         res |-> Items([k \in DOMAIN idx |-> piles[idx[k][2] + 1][idx[k][1] + 1]])]

\* interleave_data: raised when pile[i] is read past the end of a pile
\* (IndexError)
interleave_data(piles, short_pile_len, n_ec_bytes_per_pile, n_short_piles) ==
    LET n == Len(piles)
        idx == SelectSeq(
                 [k \in 1..(Len(piles[1]) * n) |-> <<(k - 1) \div n, (k - 1) % n>>],
                 LAMBDA p : interleave_taken(n, short_pile_len, n_ec_bytes_per_pile,
                                             n_short_piles, p[1], p[2]))
        bad == \E k \in DOMAIN idx : idx[k][1] >= Len(piles[idx[k][2] + 1])
    IN  [raised |-> bad,
         res |-> IF bad THEN <<>>
                 ELSE Items([k \in DOMAIN idx |-> piles[idx[k][2] + 1][idx[k][1] + 1]])]

\* mutant of prepare_payload: the piles are cut for level L whatever the
\* level selected
prepare_payload_weakest_level(d, v, e) ==
    LET num_ec_piles == get_num_ec_piles(v, "L")
        ec_bytes_len == get_ecp_per_pile(v, "L")
        num_raw_bytes == get_num_data_bytes(v) \div 8
        num_short_piles == num_ec_piles - (num_raw_bytes % num_ec_piles)
        short_pile_len == num_raw_bytes \div num_ec_piles
        piles == prepare_piles(d, v, "L")
    IN  Then(piles, interleave_data(piles, short_pile_len, ec_bytes_len,
                                    num_short_piles))

\* QR.prepare_payload(data) for self.version = v, self.ecl = e
prepare_payload(d, v, e) ==
    LET num_ec_piles == get_num_ec_piles(v, e)
        ec_bytes_len == get_ecp_per_pile(v, e)
        num_raw_bytes == get_num_data_bytes(v) \div 8
        num_short_piles == num_ec_piles - (num_raw_bytes % num_ec_piles)
        short_pile_len == num_raw_bytes \div num_ec_piles
        piles == prepare_piles(d, v, e)
    IN  Then(piles, interleave_data(piles, short_pile_len, ec_bytes_len,
                                    num_short_piles))

-----------------------------------------------------------------------------
(* The module grid.  A grid g is [blocks, isfunction], both lists of rows; *)
(* a module is TRUE (dark) or FALSE (light): the source stores True/False  *)
(* and 1/0 alike, which Python compares and sums as the same values.       *)

\* [[False] * size for _ in range(size)], twice
empty_grid(n) ==
    LET row == Items([x \in 1..n |-> FALSE])
        rows == Items([y \in 1..n |-> row])
    IN  [blocks |-> rows, isfunction |-> rows]

\* mutant of set_block: the flag is kept when a module is written
set_block_keeps_flag(g, x, y, value, isf) ==
    [g EXCEPT !.blocks[y + 1][x + 1] = value]

\* QR.set_block
set_block(g, x, y, value, isf) ==
    [g EXCEPT !.blocks[y + 1][x + 1] = value, !.isfunction[y + 1][x + 1] = isf]

\* the calls set_block(w[1], w[2], w[3], isf) for the items lo..hi of writes
RECURSIVE set_blocks(_, _, _, _, _)
set_blocks(g, writes, isf, lo, hi) ==
    IF lo > hi THEN g
    ELSE IF lo = hi
    THEN set_block(g, writes[lo][1], writes[lo][2], writes[lo][3], isf)
    ELSE LET g1 == set_blocks(g, writes, isf, lo, Mid(lo, hi))
         IN  Then(g1, set_blocks(g1, writes, isf, Mid(lo, hi) + 1, hi))

\* the writes of QR.set_timing_patterns, in order
timing_writes(n) ==
    [k \in 1..(2 * n) |->
        LET t == (k - 1) \div 2
        IN  IF k % 2 = 1 THEN <<6, t, t % 2 = 0>> ELSE <<t, 6, t % 2 = 0>>]

\* QR.set_timing_patterns
set_timing_patterns(g, n) ==
    LET writes == Items(timing_writes(n))
    IN  Then(writes, set_blocks(g, writes, TRUE, 1, 2 * n))

\* is_dark of set_finder_pattern
finder_is_dark(a, b) ==
    /\ 0 <= a /\ a <= 6 /\ 0 <= b /\ b <= 6
    /\ (a \in {0, 6} \/ b \in {0, 6} \/ (2 <= a /\ a <= 4 /\ 2 <= b /\ b <= 4))

\* the writes of QR.set_finder_pattern(x, y): i, j in range(-1, 8), in the grid
finder_writes(x, y, n) ==
    SelectSeq([k \in 1..81 |->
                  LET a == ((k - 1) \div 9) - 1
                      b == ((k - 1) % 9) - 1
                  IN  <<x + a, y + b, finder_is_dark(a, b)>>],
              LAMBDA w : 0 <= w[1] /\ w[1] < n /\ 0 <= w[2] /\ w[2] < n)

\* QR.set_finder_pattern
set_finder_pattern(g, x, y, n) ==
    LET writes == finder_writes(x, y, n)
    IN  Then(writes, set_blocks(g, writes, TRUE, 1, Len(writes)))

\* QR.get_alignment_positions
get_alignment_positions(v, n) ==
    LET num_positions == (v \div 7) + 2
        step == (((v * 8) + (num_positions * 3) + 5) \div ((num_positions * 4) - 4)) * 2
        result == [k \in 1..(num_positions - 1) |-> n - 7 - ((k - 1) * step)] \o <<6>>
    IN  [k \in 1..num_positions |-> result[num_positions + 1 - k]]

Abs(a) == IF a < 0 THEN -a ELSE a
Max(a, b) == IF a >= b THEN a ELSE b

\* the writes of QR.set_alignment_pattern(x, y): i, j in range(-2, 3)
alignment_writes(x, y) ==
    [k \in 1..25 |->
        LET a == ((k - 1) \div 5) - 2
            b == ((k - 1) % 5) - 2
        IN  <<x + a, y + b, Max(Abs(a), Abs(b)) # 1>>]

\* QR.set_alignment_pattern
set_alignment_pattern(g, x, y) ==
    set_blocks(g, alignment_writes(x, y), TRUE, 1, 25)

\* the centres draw_function_patterns draws an alignment pattern at, in
\* order: for x in align_pos: for y in align_pos, but the finder corners
alignment_centres(v, n) ==
    LET align_pos == get_alignment_positions(v, n)
        m == Len(align_pos)
    IN  IF v = 1 THEN <<>>
        ELSE SelectSeq([k \in 1..(m * m) |->
                           <<align_pos[((k - 1) \div m) + 1], align_pos[((k - 1) % m) + 1]>>],
                       LAMBDA c : c \notin {<<6, 6>>, <<6, n - 7>>, <<n - 7, 6>>})

RECURSIVE set_alignment_patterns(_, _, _)
set_alignment_patterns(g, centres, k) ==
    IF k > Len(centres) THEN g
    ELSE LET g1 == set_alignment_pattern(g, centres[k][1], centres[k][2])
         IN  Then(g1, set_alignment_patterns(g1, centres, k + 1))

\* passes lo..hi of the loop of set_format_bits:
\* r = (r << 1) ^ ((r >> 9) * 0x537)
RECURSIVE format_remainder(_, _, _)
format_remainder(r, lo, hi) ==
    IF lo > hi THEN r
    ELSE IF lo = hi THEN BitXor(ShiftL(r, 1), ShiftR(r, 9) * 1335)
    ELSE LET r1 == format_remainder(r, lo, Mid(lo, hi))
         IN  Then(r1, format_remainder(r1, Mid(lo, hi) + 1, hi))

\* mutant of format_payload: the table ordinal of the level instead of its
\* format bits
format_payload_table_ordinal(e, m) ==
    LET d == BitOr(ShiftL(ecl_lookup[e][1], 3), m)
        r == format_remainder(d, 1, 10)
    IN  Then(r, BitXor(BitOr(ShiftL(d, 10), r), 21522))

\* payload of set_format_bits(mask) for self.ecl = e
format_payload(e, m) ==
    LET d == BitOr(ShiftL(ecl_lookup[e][2], 3), m)
        r == format_remainder(d, 1, 10)
    IN  Then(r, BitXor(BitOr(ShiftL(d, 10), r), 21522))

\* where set_format_bits writes bit k of the payload: first copy
format_cell_a(k) ==
    IF k <= 5 THEN <<8, k>>
    ELSE IF k = 6 THEN <<8, 7>>
    ELSE IF k = 7 THEN <<8, 8>>
    ELSE IF k = 8 THEN <<7, 8>>
    ELSE <<14 - k, 8>>

\* where set_format_bits writes bit k of the payload: second copy
format_cell_b(k, n) ==
    IF k <= 7 THEN <<n - 1 - k, 8>> ELSE <<8, n - 15 + k>>

\* the writes of set_format_bits, in order
\* mutant of format_writes: the dark module is not written
format_writes_no_dark_module(p, n) ==
    [k \in 1..15 |-> <<format_cell_a(k - 1)[1], format_cell_a(k - 1)[2], get_bit(p, k - 1) = 1>>]
    \o [k \in 1..15 |-> <<format_cell_b(k - 1, n)[1], format_cell_b(k - 1, n)[2],
                          get_bit(p, k - 1) = 1>>]
    \o << <<8, 8, get_bit(p, 7) = 1>> >>

\* the 31 writes of set_format_bits: both copies of the 15 bits and the dark
\* module
format_writes(p, n) ==
    [k \in 1..15 |-> <<format_cell_a(k - 1)[1], format_cell_a(k - 1)[2], get_bit(p, k - 1) = 1>>]
    \o [k \in 1..15 |-> <<format_cell_b(k - 1, n)[1], format_cell_b(k - 1, n)[2],
                          get_bit(p, k - 1) = 1>>]
    \o << <<8, n - 8, TRUE>> >>

\* QR.set_format_bits(mask)
set_format_bits(g, e, m, n) ==
    LET p == format_payload(e, m)
    IN  Then(p, LET writes == Items(format_writes(p, n))
                IN  Then(writes, set_blocks(g, writes, TRUE, 1, 31)))

\* passes lo..hi of the loop of set_version_bits:
\* r = (r << 1) ^ ((r >> 11) * 0x1F25)
RECURSIVE version_remainder(_, _, _)
version_remainder(r, lo, hi) ==
    IF lo > hi THEN r
    ELSE IF lo = hi THEN BitXor(ShiftL(r, 1), ShiftR(r, 11) * 7973)
    ELSE LET r1 == version_remainder(r, lo, Mid(lo, hi))
         IN  Then(r1, version_remainder(r1, Mid(lo, hi) + 1, hi))

\* mutant of version_payload: the version and its remainder are added to
\* the version shifted by 11, not 12, bits
version_payload_short_shift(v) ==
    LET r == version_remainder(v, 1, 12)
    IN  Then(r, BitOr(ShiftL(v, 11), r))

\* payload of set_version_bits
version_payload(v) ==
    LET r == version_remainder(v, 1, 12)
    IN  Then(r, BitOr(ShiftL(v, 12), r))

\* the writes of set_version_bits, in order
version_writes(v, n) ==
    [k \in 1..36 |->
        LET t == (k - 1) \div 2
            a == n - 11 + (t % 3)
            b == t \div 3
            val == get_bit(version_payload(v), t) = 1
        IN  IF k % 2 = 1 THEN <<a, b, val>> ELSE <<b, a, val>>]

\* QR.set_version_bits
set_version_bits(g, v, n) ==
    set_blocks(g, Items(version_writes(v, n)), TRUE, 1, 36)

\* QR.draw_function_patterns
draw_function_patterns(g, v, e, n) ==
    LET g1 == set_timing_patterns(g, n)
    IN  Then(g1,
        LET g2 == set_finder_pattern(g1, 0, 0, n)
        IN  Then(g2,
        LET g3 == set_finder_pattern(g2, n - 7, 0, n)
        IN  Then(g3,
        LET g4 == set_finder_pattern(g3, 0, n - 7, n)
        IN  Then(g4,
        LET g5 == set_alignment_patterns(g4, alignment_centres(v, n), 1)
        IN  Then(g5,
        LET g6 == set_format_bits(g5, e, -1, n)
        IN  Then(g6, IF v >= 7 THEN set_version_bits(g6, v, n) ELSE g6))))))

-----------------------------------------------------------------------------
(* Data placement *)

\* the k-th (k >= 1) position (posx, posy) the loops of set_data_bytes visit:
\* for x in range(size - 1, 0, -2), for y in range(size), for j in range(2)
data_path_cell(k, n) ==
    LET x0 == n - 1 - (2 * ((k - 1) \div (2 * n)))
        x == IF x0 <= 6 THEN x0 - 1 ELSE x0
        y == ((k - 1) % (2 * n)) \div 2
        j == (k - 1) % 2
        up == BitAnd(x + 1, 2) = 0
    IN  <<x - j, IF up THEN n - 1 - y ELSE y>>

\* the number of positions visited
data_path_len(n) == ((n - 1) \div 2) * n * 2

\* mutant of set_data_byte: a function cell uses up a bit of the payload
set_data_byte_counts_skipped(st, pl, k, n) ==
    LET pos == data_path_cell(k, n)
    IN  IF ~st.g.isfunction[pos[2] + 1][pos[1] + 1] /\ st.i < Len(pl) * 8
        THEN [g |-> set_block(st.g, pos[1], pos[2],
                              get_bit(pl[(st.i \div 8) + 1], 7 - (st.i % 8)) = 1, FALSE),
              i |-> st.i + 1]
        ELSE [g |-> st.g, i |-> st.i + 1]

\* mutant of set_data_byte: lowest-order bit of a byte first
set_data_byte_lsb_first(st, pl, k, n) ==
    LET pos == data_path_cell(k, n)
    IN  IF ~st.g.isfunction[pos[2] + 1][pos[1] + 1] /\ st.i < Len(pl) * 8
        THEN [g |-> set_block(st.g, pos[1], pos[2],
                              get_bit(pl[(st.i \div 8) + 1], st.i % 8) = 1, FALSE),
              i |-> st.i + 1]
        ELSE st

\* the body of the loops of set_data_bytes at position k, st = [g, i] with i
\* the index for the payload pl
set_data_byte(st, pl, k, n) ==
    LET pos == data_path_cell(k, n)
    IN  IF ~st.g.isfunction[pos[2] + 1][pos[1] + 1] /\ st.i < Len(pl) * 8
        THEN [g |-> set_block(st.g, pos[1], pos[2],
                              get_bit(pl[(st.i \div 8) + 1], 7 - (st.i % 8)) = 1, FALSE),
              i |-> st.i + 1]
        ELSE st

\* the passes lo..hi of the loops of set_data_bytes
RECURSIVE set_data_bytes_loop(_, _, _, _, _)
set_data_bytes_loop(st, pl, n, lo, hi) ==
    IF lo > hi THEN st
    ELSE IF lo = hi THEN set_data_byte(st, pl, lo, n)
    ELSE LET st1 == set_data_bytes_loop(st, pl, n, lo, Mid(lo, hi))
         IN  Then(st1, set_data_bytes_loop(st1, pl, n, Mid(lo, hi) + 1, hi))

\* QR.set_data_bytes, self.payload = pl
set_data_bytes(g, pl, n) ==
    set_data_bytes_loop([g |-> g, i |-> 0], pl, n, 1, data_path_len(n)).g

-----------------------------------------------------------------------------
(* Masks *)

\* mask_collection[k](x, y)
mask_collection(k, x, y) ==
    CASE k = 0 -> (x + y) % 2 = 0
      [] k = 1 -> y % 2 = 0
      [] k = 2 -> x % 3 = 0
      [] k = 3 -> (x + y) % 3 = 0
      [] k = 4 -> ((x \div 3) + (y \div 2)) % 2 = 0
      [] k = 5 -> ((x * y) % 2) + ((x * y) % 3) = 0
      [] k = 6 -> (((x * y) % 2) + ((x * y) % 3)) % 2 = 0
      [] k = 7 -> (((x + y) % 2) + ((x * y) % 3)) % 2 = 0

\* mutant of apply_mask: the mask sets modules dark instead of toggling them
apply_mask_or(g, mask_index, n) ==
    [g EXCEPT !.blocks =
        Items([y \in 1..n |-> Items([x \in 1..n |->
            g.blocks[y][x]
            \/ (mask_collection(mask_index, x - 1, y - 1) /\ ~g.isfunction[y][x])])])]

\* mutant of apply_mask: function modules are toggled too
apply_mask_all(g, mask_index, n) ==
    [g EXCEPT !.blocks =
        Items([y \in 1..n |-> Items([x \in 1..n |->
            g.blocks[y][x] # mask_collection(mask_index, x - 1, y - 1)])])]

\* QR.apply_mask: blocks[y][x] ^= mask(x, y) and (not isfunction[y][x])
apply_mask(g, mask_index, n) ==
    [g EXCEPT !.blocks =
        Items([y \in 1..n |-> Items([x \in 1..n |->
            g.blocks[y][x]
            # (mask_collection(mask_index, x - 1, y - 1) /\ ~g.isfunction[y][x])])])]

-----------------------------------------------------------------------------
(* Penalty *)

lookup_penalties == <<3, 3, 40, 10>>

\* check_finder_like(array) for a list of seven (colour, length) records
check_finder_like(h) ==
    LET m == h[4][2] \div 3
    IN  /\ h[1][2] >= m /\ h[7][2] >= m
        /\ h[3][2] = m /\ h[5][2] = m
        /\ h[2][2] = m /\ h[6][2] = m

\* one pass of the loop "for i in range(1, len(array))" of get_bar_penalty,
\* for item k (1-based), st = [hist, active_color, streak]
bar_pass(array, st, k) ==
    IF array[k] = st.active_color
    THEN [st EXCEPT !.streak = @ + 1]
    ELSE [hist |-> Append(st.hist, <<st.active_color, st.streak>>),
          active_color |-> array[k], streak |-> 1]

\* the passes lo..hi of that loop; the streak running when the loop ends is
\* not added to hist
RECURSIVE bar_history(_, _, _, _)
bar_history(array, st, lo, hi) ==
    IF lo > hi THEN st
    ELSE IF lo = hi THEN bar_pass(array, st, lo)
    ELSE LET st1 == bar_history(array, st, lo, Mid(lo, hi))
         IN  Then(st1, bar_history(array, st1, Mid(lo, hi) + 1, hi))

\* sum of f[k] for k in lo..hi
RECURSIVE SumTo(_, _, _)
SumTo(f, lo, hi) ==
    IF lo > hi THEN 0
    ELSE IF lo = hi THEN f[lo]
    ELSE SumTo(f, lo, Mid(lo, hi)) + SumTo(f, Mid(lo, hi) + 1, hi)

\* QR.get_bar_penalty(array, penalties) for self.size = n; the dummy streak
\* (0, size) has the colour FALSE
get_bar_penalty(array, penalties, n) ==
    LET first == array[1]
        hist == bar_history(array,
                            IF first
                            THEN [hist |-> <<<<FALSE, n>>>>, active_color |-> first,
                                  streak |-> 1]
                            ELSE [hist |-> <<>>, active_color |-> first,
                                  streak |-> 1 + n],
                            2, Len(array)).hist
        runs == [k \in 1..Len(hist) |->
                    IF hist[k][2] >= 5 THEN penalties[1] + (hist[k][2] - 5) ELSE 0]
        finders == [k \in 1..(Len(hist) - 6) |->
                    IF /\ ~hist[k][1] /\ ~hist[k + 2][1] /\ ~hist[k + 4][1] /\ ~hist[k + 6][1]
                       /\ hist[k + 1][1] /\ hist[k + 3][1] /\ hist[k + 5][1]
                       /\ check_finder_like(SubSeq(hist, k, k + 6))
                    THEN penalties[3] ELSE 0]
    IN  Then(hist, SumTo(runs, 1, Len(hist)) + SumTo(finders, 1, Len(hist) - 6))

\* QR.get_square_penalty: penalties[2] is added for every 2x2 block of one
\* colour
get_square_penalty(b, penalties, n) ==
    penalties[3] * Cardinality({c \in (1..(n - 1)) \X (1..(n - 1)) :
        /\ b[c[1]][c[2]] = b[c[1]][c[2] + 1]
        /\ b[c[1]][c[2]] = b[c[1] + 1][c[2]]
        /\ b[c[1]][c[2]] = b[c[1] + 1][c[2] + 1]})

\* mutant of balance_k: a ratio on a threshold counts as outside it
RECURSIVE balance_k_exclusive(_, _, _)
balance_k_exclusive(num_dark, num_total, k) ==
    IF 20 * num_dark <= (9 - k) * num_total \/ 20 * num_dark >= (11 + k) * num_total
    THEN balance_k_exclusive(num_dark, num_total, k + 1)
    ELSE k

\* the loop of get_balance_penalty from k on: dark_ratio < 0.45 - k * 0.05 or
\* dark_ratio > 0.55 + k * 0.05, in twentieths of num_total (no grid has a
\* ratio within a rounding error of a threshold without being on it, and
\* on it the floating-point comparison is false as well)
RECURSIVE balance_k(_, _, _)
balance_k(num_dark, num_total, k) ==
    IF 20 * num_dark < (9 - k) * num_total \/ 20 * num_dark > (11 + k) * num_total
    THEN balance_k(num_dark, num_total, k + 1)
    ELSE k

\* QR.get_balance_penalty
get_balance_penalty(b, penalties, n) ==
    LET num_dark == Cardinality({c \in (1..n) \X (1..n) : b[c[1]][c[2]]})
    IN  penalties[4] * balance_k(num_dark, n * n, 0)

\* QR.get_penalty.  The rows are passed as [self.blocks[y]], a list of one
\* item, of which get_bar_penalty only tests the truth: a row is a non-empty
\* list, which is true.
get_penalty(b, n) ==
    LET rows == Items([y \in 1..n |->
                    get_bar_penalty(<<Len(b[y]) > 0>>, lookup_penalties, n)])
        cols == Items([x \in 1..n |->
                    get_bar_penalty(Items([y \in 1..n |-> b[y][x]]), lookup_penalties, n)])
        row_res == SumTo(rows, 1, n)
        col_res == SumTo(cols, 1, n)
        block_res == get_square_penalty(b, lookup_penalties, n)
        balance_res == get_balance_penalty(b, lookup_penalties, n)
    IN  row_res + col_res + block_res + balance_res

-----------------------------------------------------------------------------
(* QR.__init__, one action per step *)

grid == [blocks |-> blocks, isfunction |-> isfunction]

\* an exception leaves __init__: nothing more is assigned
Raise(e) ==
    /\ pc' = "error"
    /\ err' = e

\* mutant of valid_versions: the two ends are checked but not their order
valid_versions_unordered(minv, maxv) ==
    1 <= minv /\ minv <= 40 /\ 1 <= maxv /\ maxv <= 40

\* 1 <= minversion <= maxversion <= 40
valid_versions(minv, maxv) == 1 <= minv /\ minv <= maxv /\ maxv <= 40

\* the three argument checks
CheckArgs ==
    /\ pc = "start"
    /\ IF ~valid_versions(minversion, maxversion)
       THEN Raise("ValueError")
       ELSE IF ecl \notin ECLS
       THEN Raise("ValueError")
       ELSE IF mask \notin -1..7
       THEN Raise("ValueError")
       ELSE pc' = "optimize_version" /\ err' = err
    /\ UNCHANGED <<args, mask, version, self_ecl, symbol, streams, loop, fn>>

\* self.version = self.optimize_version(data, minversion, maxversion, ecl)
OptimizeVersion ==
    /\ pc = "optimize_version"
    /\ LET v == optimize_version(data, minversion, maxversion, ecl)
       IN  IF v = 0
           THEN Raise("CapacityError") /\ version' = version
           ELSE pc' = "optimize_ecl" /\ err' = err /\ version' = v
    /\ UNCHANGED <<args, mask, self_ecl, symbol, streams, loop, fn>>

\* self.ecl = self.optimize_ecl(data, self.version, ecl)
OptimizeEcl ==
    /\ pc = "optimize_ecl"
    /\ self_ecl' = optimize_ecl(data, version)
    /\ pc' = "allocate"
    /\ UNCHANGED <<err, args, mask, version, symbol, streams, loop, fn>>

\* self.size, self.blocks, self.isfunction
Allocate ==
    /\ pc = "allocate"
    /\ size' = (version * 4) + 17
    /\ blocks' = empty_grid(size').blocks
    /\ isfunction' = empty_grid(size').isfunction
    /\ pc' = "pad"
    /\ UNCHANGED <<err, args, mask, version, self_ecl, streams, loop, fn>>

\* encoded_payload = pad_and_terminate(data, self.version, ecl), with the
\* caller's ecl
PadAndTerminate ==
    /\ pc = "pad"
    /\ LET r == pad_and_terminate(data, version, ecl)
       IN  IF r.raised
           THEN Raise("ValueError") /\ encoded_payload' = encoded_payload
           ELSE pc' = "draw" /\ err' = err /\ encoded_payload' = r.bytes
    /\ UNCHANGED <<args, mask, version, self_ecl, symbol, payload, loop, fn>>

\* self.draw_function_patterns()
DrawFunctionPatterns ==
    /\ pc = "draw"
    /\ LET g == draw_function_patterns(grid, version, self_ecl, size)
       IN  blocks' = g.blocks /\ isfunction' = g.isfunction
    /\ pc' = "prepare"
    /\ UNCHANGED <<err, args, mask, version, self_ecl, size, streams, loop, fn>>

\* self.payload = self.prepare_payload(encoded_payload)
PreparePayload ==
    /\ pc = "prepare"
    /\ LET r == prepare_payload(encoded_payload, version, self_ecl)
       IN  IF r.raised
           THEN Raise("IndexError") /\ payload' = payload
           ELSE pc' = "place" /\ err' = err /\ payload' = r.res
    /\ UNCHANGED <<args, mask, version, self_ecl, symbol, encoded_payload, loop, fn>>

\* self.set_data_bytes()
SetDataBytes ==
    /\ pc = "place"
    /\ LET g == set_data_bytes(grid, payload, size)
       IN  blocks' = g.blocks /\ isfunction' = g.isfunction
    /\ pc' = "mask"
    /\ UNCHANGED <<err, args, mask, version, self_ecl, size, streams, loop, fn>>

\* if mask == -1: min_penalty = float('inf'), and the loop starts at i = 0
BeginMaskSelection ==
    /\ pc = "mask"
    /\ IF mask = -1
       THEN pc' = "trial_apply" /\ i' = 0 /\ min_penalty' = -1
       ELSE pc' = "final_apply" /\ i' = i /\ min_penalty' = min_penalty
    /\ UNCHANGED <<err, args, mask, version, self_ecl, symbol, streams, penalty, fn>>

\* self.apply_mask(i), first call of the loop body
TrialApplyMask ==
    /\ pc = "trial_apply"
    /\ blocks' = apply_mask(grid, i, size).blocks
    /\ pc' = "trial_format"
    /\ UNCHANGED <<err, args, mask, version, self_ecl, size, isfunction, streams, loop, fn>>

\* self.set_format_bits(i)
TrialSetFormatBits ==
    /\ pc = "trial_format"
    /\ LET g == set_format_bits(grid, self_ecl, i, size)
       IN  blocks' = g.blocks /\ isfunction' = g.isfunction
    /\ pc' = "trial_score"
    /\ UNCHANGED <<err, args, mask, version, self_ecl, size, streams, loop, fn>>

\* mutant of penalty_improves: a later mask with the same penalty wins
penalty_improves_or_ties(p, m) == m = -1 \/ p <= m

\* penalty < min_penalty, min_penalty = -1 standing for float('inf')
penalty_improves(p, m) == m = -1 \/ p < m

\* penalty = self.get_penalty(); if penalty < min_penalty: ...
TrialScore ==
    /\ pc = "trial_score"
    /\ penalty' = get_penalty(blocks, size)
    /\ IF penalty_improves(penalty', min_penalty)
       THEN min_penalty' = penalty' /\ mask' = i
       ELSE min_penalty' = min_penalty /\ mask' = mask
    /\ pc' = "trial_unapply"
    /\ UNCHANGED <<err, args, version, self_ecl, symbol, streams, i, fn>>

\* mutant of TrialUnapplyMask: the mask of the candidate is left on the grid
TrialKeepMask ==
    /\ pc = "trial_unapply"
    /\ blocks' = blocks
    /\ IF i < 7
       THEN i' = i + 1 /\ pc' = "trial_apply"
       ELSE i' = i /\ pc' = "final_apply"
    /\ UNCHANGED <<err, args, mask, version, self_ecl, size, isfunction, streams, penalty, min_penalty, fn>>

\* self.apply_mask(i), second call of the loop body; then the next i
TrialUnapplyMask ==
    /\ pc = "trial_unapply"
    /\ blocks' = apply_mask(grid, i, size).blocks
    /\ IF i < 7
       THEN i' = i + 1 /\ pc' = "trial_apply"
       ELSE i' = i /\ pc' = "final_apply"
    /\ UNCHANGED <<err, args, mask, version, self_ecl, size, isfunction, streams, penalty, min_penalty, fn>>

\* self.apply_mask(mask)
FinalApplyMask ==
    /\ pc = "final_apply"
    /\ blocks' = apply_mask(grid, mask, size).blocks
    /\ pc' = "final_format"
    /\ UNCHANGED <<err, args, mask, version, self_ecl, size, isfunction, streams, loop, fn>>

\* self.set_format_bits(mask)
FinalSetFormatBits ==
    /\ pc = "final_format"
    /\ LET g == set_format_bits(grid, self_ecl, mask, size)
       IN  blocks' = g.blocks /\ isfunction' = g.isfunction
    /\ pc' = "done"
    /\ UNCHANGED <<err, args, mask, version, self_ecl, size, streams, loop, fn>>

-----------------------------------------------------------------------------
(* qrgen.gen_qr: the command-line wrapper around genqr, render_qr and save *)

\* the parameters of render_qr(qr, resolution = 300, border = 2)
render_qr_params == <<"qr", "resolution", "border">>

\* the positional arguments gen_qr passes: render_qr(qr, resolution, 2, verbosity)
gen_qr_render_args == <<"qr", "resolution", 2, "verbosity">>

\* a call binds when it passes no more positional arguments than parameters
\* (every parameter of render_qr after the first has a default)
call_binds(params, passed) == 1 <= Len(passed) /\ Len(passed) <= Len(params)

\* render_qr: the raster of the grid, scale pixels per cell, border cells around
render_qr(qr_size, qr_blocks, resolution, border) ==
    LET scale == Max(resolution \div (qr_size + 4), 10)
        img_size == (qr_size + (2 * border)) * scale
    IN  [img_size |-> img_size, scale |-> scale, border |-> border,
         cells |-> qr_blocks]

\* the colour of pixel (px, py) of a raster: 0 dark, 1 white
getpixel(img, px, py) ==
    LET x == (px \div img.scale) - img.border
        y == (py \div img.scale) - img.border
        n == Len(img.cells)
    IN  IF 0 <= x /\ x < n /\ 0 <= y /\ y < n /\ img.cells[y + 1][x + 1]
        THEN 0 ELSE 1

\* gen_qr after genqr has returned: render, save, success log; an exception
\* of any of them is caught and handed to handle_error
GenQrRenderSave ==
    /\ pc = "done"
    /\ IF ~call_binds(render_qr_params, gen_qr_render_args)
       THEN pc' = "except" /\ err' = "TypeError" /\ ret' = ret
       ELSE LET img == render_qr(size, blocks, call.resolution, 2)
            IN  IF ~call.output_ok
                THEN pc' = "except" /\ err' = "OSError" /\ ret' = ret
                ELSE /\ pc' = "exit"
                     /\ err' = err
                     /\ ret' = [status |-> 0, log |-> "success",
                                saved |-> <<img>>]
    /\ UNCHANGED <<args, mask, version, self_ecl, symbol, streams, loop, call>>

\* handle_error: the error log, then sys.exit(1); reached from the except
\* clause of gen_qr, whichever call of the try block raised
HandleError ==
    /\ pc \in {"error", "except"}
    /\ pc' = "exit"
    /\ ret' = [status |-> 1, log |-> "error", saved |-> <<>>]
    /\ UNCHANGED <<err, args, mask, version, self_ecl, symbol, streams, loop,
                   call>>

-----------------------------------------------------------------------------
(* Specifications *)

\* nothing assigned by QR.__init__ yet
Blank ==
    /\ err = ""
    /\ version = 0 /\ self_ecl = "" /\ size = 0
    /\ blocks = <<>> /\ isfunction = <<>>
    /\ encoded_payload = <<>> /\ payload = <<>>
    /\ i = 0 /\ penalty = -1 /\ min_penalty = -1

\* the state in which QR.__init__ is entered
Fresh == pc = "start" /\ Blank /\ call = <<>> /\ ret = <<>>

\* n characters c
Rep(c, n) == [k \in 1..n |-> c]

\* the longest payload that fits version v at level e, in characters
MaxFit(v, e) == ((get_capacity(v, e) * 8) - 4 - get_num_char_count_bits(v)) \div 8

(* Selection of version and level: QR.__init__ up to self.ecl, over payload
   lengths 0..MaxSelLen and the two long payloads of 255 and 256 characters,
   valid and invalid arguments. *)
MaxSelLen == 20
MaxSelMin == 3

SelLengths == (0..MaxSelLen) \cup {255, 256}
SelMaxVersions == (1..MaxSelMin) \cup {5, 9, 10, 40, 41}

InitSelect ==
    /\ Fresh
    /\ data \in {Rep(65, n) : n \in SelLengths}
    /\ minversion \in 0..MaxSelMin
    /\ maxversion \in SelMaxVersions
    /\ ecl \in ECLS \cup {"X"}
    /\ mask \in {-2, -1, 7, 8}

NextSelect == CheckArgs \/ OptimizeVersion \/ OptimizeEcl

SpecSelect == InitSelect /\ [][NextSelect]_vars

(* Blocks: QR.__init__ up to self.payload, one version at a time
   (minversion = maxversion), every level, the empty payload, the longest
   payload of the level, one of mixed characters, and the longest payloads
   of levels M and Q, which a caller's level L or M is upgraded for. *)
MaxBlocksVersion == 5

mixed_chars(n) == [k \in 1..n |-> ((k * 37) + 11) % 256]

InitBlocks ==
    /\ Fresh
    /\ minversion \in 1..MaxBlocksVersion
    /\ maxversion = minversion
    /\ ecl \in ECLS
    /\ data \in {<<>>, Rep(65, MaxFit(minversion, ecl)),
                 mixed_chars(MaxFit(minversion, ecl) - 1),
                 Rep(66, MaxFit(minversion, "M")),
                 mixed_chars(MaxFit(minversion, "Q"))}
    /\ mask = -1

NextBlocks ==
    \/ CheckArgs
    \/ OptimizeVersion
    \/ OptimizeEcl
    \/ Allocate
    \/ PadAndTerminate
    \/ DrawFunctionPatterns
    \/ PreparePayload

SpecBlocks == InitBlocks /\ [][NextBlocks]_vars

(* Padding: QR.__init__ up to encoded_payload, one version at a time:
   versions 1..MaxPadVersion and 9, 10 and 40, every level, payloads of
   0..MaxPadLen mixed characters, the longest payload of the version and
   level, one character less than that, and a character above 255. *)
MaxPadVersion == 2
MaxPadLen == 6

PadVersions == (1..MaxPadVersion) \cup {9, 10, 40}

InitPad ==
    /\ Fresh
    /\ minversion \in PadVersions
    /\ maxversion = minversion
    /\ ecl \in ECLS
    /\ data \in {mixed_chars(n) : n \in 0..MaxPadLen}
                \cup {Rep(65, MaxFit(minversion, ecl)),
                      mixed_chars(MaxFit(minversion, ecl) - 1),
                      <<65, 256>>}
    /\ mask = -1

NextPad ==
    \/ CheckArgs
    \/ OptimizeVersion
    \/ OptimizeEcl
    \/ Allocate
    \/ PadAndTerminate

SpecPad == InitPad /\ [][NextPad]_vars

(* apply_mask on its own: grids of side MaskGridSize whose cells repeat a
   pattern of MaskPatternBits bits, every pattern for the modules and every
   pattern for the function flags, every mask index. *)
MaskGridSize == 6
MaskPatternBits == 4

pattern_rows(a, n) ==
    [y \in 1..n |->
        [x \in 1..n |-> get_bit(a, (((y - 1) * n) + (x - 1)) % MaskPatternBits) = 1]]

pattern_grid(a, b, n) ==
    [blocks |-> pattern_rows(a, n), isfunction |-> pattern_rows(b, n)]

InitMask ==
    /\ pc = "apply_mask"
    /\ Blank
    /\ data = <<>> /\ minversion = 1 /\ maxversion = 1 /\ ecl = "L" /\ mask = -1
    /\ \E a \in 0..(Pow2(MaskPatternBits) - 1), b \in 0..(Pow2(MaskPatternBits) - 1),
          k \in 0..7 :
          call = [grid |-> pattern_grid(a, b, MaskGridSize), mask_index |-> k,
                  size |-> MaskGridSize]
    /\ ret = <<>>

\* self.apply_mask(k)
ApplyMask ==
    /\ pc = "apply_mask"
    /\ ret' = <<apply_mask(call.grid, call.mask_index, call.size)>>
    /\ pc' = "apply_mask_again"
    /\ UNCHANGED <<err, args, mask, version, self_ecl, symbol, streams, loop, call>>

\* self.apply_mask(k) once more, on the grid the first call left
ApplyMaskAgain ==
    /\ pc = "apply_mask_again"
    /\ ret' = Append(ret, apply_mask(ret[1], call.mask_index, call.size))
    /\ pc' = "returned"
    /\ UNCHANGED <<err, args, mask, version, self_ecl, symbol, streams, loop, call>>

NextMask == ApplyMask \/ ApplyMaskAgain

SpecMask == InitMask /\ [][NextMask]_vars

(* The whole of QR.__init__: versions 1..MaxGridVersion, every level, with
   the mask chosen by the code or given; the payloads are the empty one, the
   longest of each version and level, one whose two best masks tie, one with
   a character above 255, and 255 characters at level H in versions 1..5,
   which fit no version. *)
MaxGridVersion == 2

FullPayloads ==
    {<<>>, <<33, 5>>, <<65, 256>>}
        \cup {Rep(65, MaxFit(v, e)) : v \in 1..MaxGridVersion, e \in ECLS}

Init ==
    /\ Fresh
    /\ \/ /\ minversion \in 1..MaxGridVersion
          /\ maxversion = MaxGridVersion
          /\ ecl \in ECLS
          /\ data \in FullPayloads
          /\ mask \in {-1, 3}
       \/ /\ minversion = 1 /\ maxversion = 5 /\ ecl = "H"
          /\ data = Rep(65, 255)
          /\ mask = -1

Next ==
    \/ CheckArgs
    \/ OptimizeVersion
    \/ OptimizeEcl
    \/ Allocate
    \/ PadAndTerminate
    \/ DrawFunctionPatterns
    \/ PreparePayload
    \/ SetDataBytes
    \/ BeginMaskSelection
    \/ TrialApplyMask
    \/ TrialSetFormatBits
    \/ TrialScore
    \/ TrialUnapplyMask
    \/ FinalApplyMask
    \/ FinalSetFormatBits

Spec == Init /\ [][Next]_vars

(* The whole of QR.__init__ on one version at a time: versions
   1..MaxSymbolVersion with every level, the mask chosen by the code or
   given; version 7, the first with version information, with the mask
   chosen by the code; version 40, the largest, with a given mask. *)
MaxSymbolVersion == 2

InitSymbol ==
    /\ Fresh
    /\ \/ /\ minversion \in 1..MaxSymbolVersion
          /\ ecl \in ECLS
          /\ data \in {<<>>, <<33, 5>>, Rep(65, MaxFit(minversion, ecl))}
          /\ mask \in {-1, 5}
       \/ /\ minversion = 7 /\ ecl = "L"
          /\ data = mixed_chars(40)
          /\ mask = -1
       \/ /\ minversion = 40 /\ ecl = "H"
          /\ data = <<72, 105>>
          /\ mask = 3
    /\ maxversion = minversion

SpecSymbol == InitSymbol /\ [][Next]_vars

(* RSEncoder.multiply on its own: every pair of factors in 0..MaxFactor,
   which is every pair of 8-bit values and the first value of nine bits. *)
MaxFactor == 256

InitMultiply ==
    /\ pc = "multiply"
    /\ Blank
    /\ data = <<>> /\ minversion = 1 /\ maxversion = 1 /\ ecl = "L" /\ mask = -1
    /\ \E x \in 0..MaxFactor, y \in 0..MaxFactor : call = [x |-> x, y |-> y]
    /\ ret = <<>>

\* multiply(x, y)
Multiply ==
    /\ pc = "multiply"
    /\ IF multiply_raises(call.x, call.y)
       THEN Raise("ValueError") /\ ret' = ret
       ELSE /\ ret' = <<multiply(call.x, call.y)>>
            /\ pc' = "multiply_swapped"
            /\ err' = err
    /\ UNCHANGED <<args, mask, version, self_ecl, symbol, streams, loop, call>>

\* multiply(y, x), the same factors in the other order
MultiplySwapped ==
    /\ pc = "multiply_swapped"
    /\ ret' = Append(ret, multiply(call.y, call.x))
    /\ pc' = "multiplied"
    /\ UNCHANGED <<err, args, mask, version, self_ecl, symbol, streams, loop, call>>

NextMultiply == Multiply \/ MultiplySwapped

SpecMultiply == InitMultiply /\ [][NextMultiply]_vars

(* BitStream on its own: a new BitStream, two calls of append_bits and a call
   of convert_to_bytes (after the first or the second append_bits), with
   values -1..MaxBitsValue and 165, 255, 256 and widths -1..MaxBitsWidth and
   8.  call is the list of the calls made (method, val, n); ret holds the
   object (self), its bit list before the last call (before) and the bytes
   the last convert_to_bytes returned. *)
MaxBitsValue == 16
MaxBitsWidth == 5

BitsValues == (-1..MaxBitsValue) \cup {165, 255, 256}
BitsWidths == (-1..MaxBitsWidth) \cup {8}

InitBits ==
    /\ pc = "append_bits"
    /\ Blank
    /\ data = <<>> /\ minversion = 1 /\ maxversion = 1 /\ ecl = "L" /\ mask = -1
    /\ call = <<>>
    /\ ret = [self |-> BitStream, before |-> <<>>, bytes |-> <<>>]

\* self.append_bits(val, n), followed by the step next when it returns; when
\* it raises, the object is left with the bit list it has
AppendBitsThen(val, n, next) ==
    LET b == append_bits(ret.self, val, n)
    IN  /\ call' = Append(call, [method |-> "append_bits", val |-> val, n |-> n])
        /\ ret' = [self |-> [b EXCEPT !.raised = FALSE], before |-> ret.self.data,
                   bytes |-> <<>>]
        /\ IF b.raised THEN Raise("ValueError") ELSE pc' = next /\ err' = err
        /\ UNCHANGED <<args, mask, version, self_ecl, symbol, streams, loop>>

\* the first append_bits on the new BitStream
AppendBits ==
    /\ pc = "append_bits"
    /\ \E val \in BitsValues, n \in BitsWidths : AppendBitsThen(val, n, "append_bits_again")

\* a second append_bits
AppendBitsAgain ==
    /\ pc = "append_bits_again"
    /\ \E val \in BitsValues, n \in BitsWidths : AppendBitsThen(val, n, "convert_to_bytes")

\* self.convert_to_bytes()
ConvertToBytes ==
    /\ pc \in {"append_bits_again", "convert_to_bytes"}
    /\ LET r == convert_to_bytes(ret.self)
       IN  /\ call' = Append(call, [method |-> "convert_to_bytes"])
           /\ ret' = [self |-> ret.self, before |-> ret.self.data, bytes |-> r.bytes]
           /\ IF r.raised THEN Raise("ValueError") ELSE pc' = "converted" /\ err' = err
    /\ UNCHANGED <<args, mask, version, self_ecl, symbol, streams, loop>>

NextBits == AppendBits \/ AppendBitsAgain \/ ConvertToBytes

SpecBits == InitBits /\ [][NextBits]_vars

(* get_balance_penalty on its own: grids of side 1..MaxBalanceSize and of
   side 21 (version 1) with every number of dark modules, the dark modules
   being the first ones in row order.  Side 10 has 100 modules, so that
   ratios of exactly 0.45, 0.40, ... and 0.55, 0.60, ... are among them. *)
MaxBalanceSize == 10

BalanceSizes == (1..MaxBalanceSize) \cup {21}

\* the grid of side n whose first d modules, row by row, are dark
dark_first(d, n) ==
    [y \in 1..n |-> [x \in 1..n |-> ((y - 1) * n) + (x - 1) < d]]

InitBalance ==
    /\ pc = "get_balance_penalty"
    /\ Blank
    /\ data = <<>> /\ minversion = 1 /\ maxversion = 1 /\ ecl = "L" /\ mask = -1
    /\ \E n \in BalanceSizes : \E d \in 0..(n * n) :
          call = [blocks |-> dark_first(d, n), size |-> n]
    /\ ret = <<>>

\* self.get_balance_penalty(lookup_penalties)
GetBalancePenalty ==
    /\ pc = "get_balance_penalty"
    /\ ret' = <<get_balance_penalty(call.blocks, lookup_penalties, call.size)>>
    /\ pc' = "balance_scored"
    /\ UNCHANGED <<err, args, mask, version, self_ecl, symbol, streams, loop, call>>

NextBalance == GetBalancePenalty

SpecBalance == InitBalance /\ [][NextBalance]_vars

(* qrgen.gen_qr from the command line: genqr (mask -1) on version
   1..MaxCliVersion, then rendering at a resolution and saving to an output
   path that can or cannot be written; the payloads are the empty one, a
   short one and one that fits no version allowed. *)
MaxCliVersion == 1

InitCli ==
    /\ pc = "start" /\ Blank
    /\ minversion \in 1..MaxCliVersion
    /\ maxversion = MaxCliVersion
    /\ ecl \in {"L", "H", "X"}
    /\ data \in {<<>>, <<72, 105>>, Rep(65, 30)}
    /\ mask = -1
    /\ call \in [resolution : {300, 1000}, output_ok : BOOLEAN]
    /\ ret = <<>>

NextCli == Next \/ GenQrRenderSave \/ HandleError

SpecCli == InitCli /\ [][NextCli]_vars

(* RSEncoder on its own: the divisor of every degree 1..MaxRsDegree (the
   symbols use 7..30) and of degree 255, the largest, then the remainder of
   data of up to MaxRsLen bytes; degrees 0 and 256 are refused. *)
MaxRsDegree == 30
MaxRsLen == 9

RsData == {<<>>, <<1>>, <<0, 0>>, <<255, 142>>, mixed_chars(MaxRsLen)}

InitRs ==
    /\ pc = "rs_init"
    /\ Blank
    /\ data = <<>> /\ minversion = 1 /\ maxversion = 1 /\ ecl = "L" /\ mask = -1
    /\ \/ \E d \in 1..MaxRsDegree, s \in RsData : call = [degree |-> d, data |-> s]
       \/ \E d \in {0, 255, 256} : call = [degree |-> d, data |-> mixed_chars(MaxRsLen)]
    /\ ret = <<>>

\* RSEncoder(degree): self.div = self.create_rs_divisor(degree)
RsInit ==
    /\ pc = "rs_init"
    /\ IF create_rs_divisor_raises(call.degree)
       THEN Raise("ValueError") /\ ret' = ret
       ELSE /\ ret' = [div |-> create_rs_divisor(call.degree)]
            /\ pc' = "rs_ready"
            /\ err' = err
    /\ UNCHANGED <<args, mask, version, self_ecl, symbol, streams, loop, call>>

\* rs.remainder(data)
RsRemainder ==
    /\ pc = "rs_ready"
    /\ ret' = [div |-> ret.div, rem |-> remainder(ret.div, call.data)]
    /\ pc' = "rs_done"
    /\ UNCHANGED <<err, args, mask, version, self_ecl, symbol, streams, loop, call>>

NextRs == RsInit \/ RsRemainder

SpecRs == InitRs /\ [][NextRs]_vars

(* QR.__init__ up to the drawing of the functional patterns, on every
   version 1..MaxDrawVersion (40, the last one), for an empty payload.
   MaxPlaceVersion is the last version on whose grid the placement of a
   whole stream is followed cell by cell: versions 1..21 have every number
   of remainder cells there is (0, 7, 3 and 4). *)
MaxDrawVersion == 40
MaxPlaceVersion == 21

InitDraw ==
    /\ Fresh
    /\ minversion \in 1..MaxDrawVersion
    /\ maxversion = minversion
    /\ ecl = "L"
    /\ data = <<>>
    /\ mask = -1

NextDraw ==
    \/ CheckArgs
    \/ OptimizeVersion
    \/ OptimizeEcl
    \/ Allocate
    \/ PadAndTerminate
    \/ DrawFunctionPatterns

SpecDraw == InitDraw /\ [][NextDraw]_vars

(* get_penalty on its own, on a grid and on its transpose: the grids of side
   PenaltyGridSize whose module (x, y) is dark when bit y of p and bit x of q
   differ, for p and q in 0..MaxPenaltyPattern; they are the striped grids
   and the chequered ones, and the transpose of each is among them. *)
PenaltyGridSize == 6
MaxPenaltyPattern == 15

\* the grid of side n of the patterns p (rows) and q (columns)
crossed_grid(p, q, n) ==
    [y \in 1..n |-> [x \in 1..n |-> get_bit(p, y - 1) # get_bit(q, x - 1)]]

\* the transpose of the grid b of side n
transposed(b, n) == [y \in 1..n |-> [x \in 1..n |-> b[x][y]]]

InitPenalty ==
    /\ pc = "get_penalty"
    /\ Blank
    /\ data = <<>> /\ minversion = 1 /\ maxversion = 1 /\ ecl = "L" /\ mask = -1
    /\ \E p \in 0..MaxPenaltyPattern, q \in 0..MaxPenaltyPattern :
          call = [blocks |-> crossed_grid(p, q, PenaltyGridSize),
                  size |-> PenaltyGridSize]
    /\ ret = <<>>

\* self.get_penalty() with self.blocks the grid
GetPenalty ==
    /\ pc = "get_penalty"
    /\ ret' = <<get_penalty(call.blocks, call.size)>>
    /\ pc' = "get_penalty_transposed"
    /\ UNCHANGED <<err, args, mask, version, self_ecl, symbol, streams, loop, call>>

\* self.get_penalty() with self.blocks the transpose of the grid
GetPenaltyTransposed ==
    /\ pc = "get_penalty_transposed"
    /\ ret' = Append(ret, get_penalty(transposed(call.blocks, call.size), call.size))
    /\ pc' = "scored_both"
    /\ UNCHANGED <<err, args, mask, version, self_ecl, symbol, streams, loop, call>>

NextPenalty == GetPenalty \/ GetPenaltyTransposed

SpecPenalty == InitPenalty /\ [][NextPenalty]_vars

-----------------------------------------------------------------------------
(* Claims *)

\* the invariants on inputs: 1 <= min_version <= max_version <= 40, a level
\* among L, M, Q, H, a mask in -1..7
VersionsValid == 1 <= minversion /\ minversion <= maxversion /\ maxversion <= 40
LevelValid == ecl \in {"L", "M", "Q", "H"}
InputsValid == VersionsValid /\ LevelValid /\ mask \in -1..7

\* used(v) = 4 + char_count_width(v) + 8*len(data), the width being 8 bits
\* in versions 1..9 and 16 bits in versions 10..40
SpecUsed(v) == 4 + (IF v <= 9 THEN 8 ELSE 16) + (8 * Len(data))

\* used(v) <= 8 * data_capacity_bytes(v, e)
SpecFits(v, e) == SpecUsed(v) <= 8 * get_capacity(v, e)

\* the steps of QR.__init__ that come after the version selection
VersionStepDone == pc \notin {"start", "optimize_version"}

\* the steps that come after a successful selection of version and level
LevelStepDone == pc \notin {"start", "optimize_version", "optimize_ecl", "error"}

\* nothing of the symbol exists: no version, no level, no grid, no stream
NoSymbolState ==
    /\ version = 0 /\ self_ecl = "" /\ size = 0
    /\ blocks = <<>> /\ isfunction = <<>>
    /\ encoded_payload = <<>> /\ payload = <<>>

\* C1: when some version of a valid range fits under ecl_min, the selected
\* version is in the range, fits, and no smaller version of the range fits.
C1_SmallestFittingVersion ==
    (/\ InputsValid
     /\ VersionStepDone
     /\ \E v \in minversion..maxversion : SpecFits(v, ecl))
        => /\ version \in minversion..maxversion
           /\ SpecFits(version, ecl)
           /\ \A w \in minversion..(version - 1) : ~SpecFits(w, ecl)

\* C1 witness: the scan has passed over at least one version that does not
\* fit and stopped before the end of the range.
C1_Witness ==
    /\ pc = "optimize_ecl"
    /\ minversion < version /\ version < maxversion
    /\ ~SpecFits(minversion, ecl)

\* C2: with valid arguments, the encoding ends in CapacityError exactly when
\* no version of the range fits under ecl_min (as 255 bytes at H in versions
\* 1..5 do not), and when it does nothing of the symbol has been created: no
\* grid allocated, no payload padded.
C2_CapacityErrorIffNoVersionFits ==
    /\ (InputsValid /\ VersionStepDone)
          => ((err = "CapacityError")
                <=> ~(\E v \in minversion..maxversion : SpecFits(v, ecl)))
    /\ (err = "CapacityError") => (pc = "error" /\ NoSymbolState)
    /\ (/\ VersionStepDone
        /\ Len(data) = 255 /\ ecl = "H" /\ minversion = 1 /\ maxversion = 5)
          => err = "CapacityError"

\* C2 witness: the 255 bytes at level H in versions 1..5 have been refused.
C2_Witness ==
    /\ err = "CapacityError"
    /\ Len(data) = 255 /\ ecl = "H" /\ minversion = 1 /\ maxversion = 5

\* the first level in the order H, Q, M, L that fits version v
SpecLevel(v) ==
    IF SpecFits(v, "H") THEN "H"
    ELSE IF SpecFits(v, "Q") THEN "Q"
    ELSE IF SpecFits(v, "M") THEN "M"
    ELSE "L"

\* C3: the selected level is the first of H, Q, M, L that fits the chosen
\* version; 11 bytes from M give version 1 at Q, 10 bytes from L give
\* version 1 at Q, the empty payload from L gives version 1 at H.
C3_FirstFittingLevel ==
    /\ (InputsValid /\ LevelStepDone)
          => (self_ecl = SpecLevel(version) /\ SpecFits(version, self_ecl))
    /\ (LevelStepDone /\ minversion = 1 /\ Len(data) = 11 /\ ecl = "M")
          => (version = 1 /\ self_ecl = "Q")
    /\ (LevelStepDone /\ minversion = 1 /\ Len(data) = 10 /\ ecl = "L")
          => (version = 1 /\ self_ecl = "Q")
    /\ (LevelStepDone /\ minversion = 1 /\ Len(data) = 0 /\ ecl = "L")
          => (version = 1 /\ self_ecl = "H")

\* C3 witness: the 11 bytes asked at M have been given version 1 and level Q.
C3_Witness ==
    /\ pc = "allocate"
    /\ minversion = 1 /\ Len(data) = 11 /\ ecl = "M"
    /\ version = 1 /\ self_ecl = "Q"

\* the order L < M < Q < H
Strength(e) == IF e = "L" THEN 0 ELSE IF e = "M" THEN 1 ELSE IF e = "Q" THEN 2 ELSE 3

\* C4: the selected level is never weaker than ecl_min, and the data
\* capacity does not increase from L to H in any version of the range (the
\* ranges go up to 1..40).
C4_NeverDowngrades ==
    (InputsValid /\ LevelStepDone)
        => /\ Strength(self_ecl) >= Strength(ecl)
           /\ \A v \in minversion..maxversion :
                 /\ get_capacity(v, "L") >= get_capacity(v, "M")
                 /\ get_capacity(v, "M") >= get_capacity(v, "Q")
                 /\ get_capacity(v, "Q") >= get_capacity(v, "H")

\* C4 witness: a payload that fits its ecl_min but no stronger level, so
\* that the scan has come down to ecl_min itself.
C4_Witness ==
    /\ pc = "allocate"
    /\ ecl = "Q" /\ self_ecl = "Q"
    /\ ~SpecFits(version, "H")

\* the 256 bytes at L in versions 1..40, after the version selection
C5_Case ==
    /\ pc = "optimize_ecl"
    /\ Len(data) = 256 /\ ecl = "L" /\ minversion = 1 /\ maxversion = 40

\* C5 as stated: version 10 is selected and its L capacity is 271 bytes.
C5_Original ==
    C5_Case => (/\ version = 10
                /\ get_capacity(10, "L") = 271
                /\ used_capacity(data, 10) = 2068
                /\ \A v \in 1..9 : ~fits(data, v, "L")
                /\ 2068 <= 271 * 8)

\* C5: for 256 bytes at L in versions 1..40 the selected version is 10,
\* whose L data capacity is 274 bytes: used = 2068 bits fits no version 1..9
\* and 2068 <= 274 * 8 = 2192.
C5_Version10For256Bytes ==
    C5_Case => (/\ version = 10
                /\ get_capacity(10, "L") = 274
                /\ used_capacity(data, 10) = 2068
                /\ \A v \in 1..9 : ~fits(data, v, "L")
                /\ 2068 <= 274 * 8
                /\ 274 * 8 = 2192)

\* C5 witness: the 256 bytes have been given version 10.
C5_Witness == C5_Case /\ version = 10

\* C6: when the version range or the level is invalid, the call ends in an
\* error that is not CapacityError, at the argument checks: no version is
\* selected and nothing of the symbol is created.
C6_InvalidArgumentsRejected ==
    ((~VersionsValid \/ ~LevelValid) /\ pc # "start")
        => /\ pc = "error"
           /\ err = "ValueError"
           /\ err # "CapacityError"
           /\ NoSymbolState

\* C6 witness: a range with min_version above max_version has been refused,
\* the level being a valid one.
C6_Witness ==
    /\ pc = "error" /\ err = "ValueError"
    /\ minversion > maxversion /\ maxversion >= 1 /\ LevelValid

\* raw_capacity_bits(v): 16v^2 + 128v + 64, less (25A - 10)A - 55 with
\* A = v/7 + 2 from version 2, less 36 from version 7
SpecRawCapacityBits(v) ==
    LET A == (v \div 7) + 2
    IN  ((((16 * v) + 128) * v) + 64)
            - (IF v >= 2 THEN (((25 * A) - 10) * A) - 55 ELSE 0)
            - (IF v >= 7 THEN 36 ELSE 0)

\* C7: once the blocks are split, extended with their error correction bytes
\* and interleaved, the stream has raw_capacity_bits(version) / 8 bytes, and
\* no payload that fits makes that step fail.
C7_InterleavedStreamLength ==
    /\ (pc \notin {"start", "optimize_version", "optimize_ecl", "allocate",
                   "pad", "draw", "prepare", "error"})
          => Len(payload) = SpecRawCapacityBits(version) \div 8
    /\ err # "IndexError"

\* C7 witness: a stream has been interleaved from several blocks, some of
\* them one data byte shorter than the others.
C7_Witness ==
    /\ pc = "place"
    /\ get_num_ec_piles(version, self_ecl) > 1
    /\ (get_capacity(version, self_ecl) % get_num_ec_piles(version, self_ecl)) # 0
    /\ Len(payload) > 0

\* the module at column x, row y
Module(x, y) == blocks[y + 1][x + 1]

\* the format ordinals L=1, M=0, Q=3, H=2
SpecFormatOrdinal(e) ==
    IF e = "L" THEN 1 ELSE IF e = "M" THEN 0 ELSE IF e = "Q" THEN 3 ELSE 2

\* the remainder of the polynomial p, of degree at most top, modulo 0x537
RECURSIVE SpecFormatMod(_, _)
SpecFormatMod(p, top) ==
    IF top < 10 THEN p
    ELSE SpecFormatMod(IF (p \div Pow2(top)) % 2 = 1
                       THEN BitXor(p, 1335 * Pow2(top - 10))
                       ELSE p,
                       top - 1)

\* ((format_ordinal(e) << 3 | k) << 10 | r) XOR 0x5412
SpecFormatWord(e, k) ==
    LET d == (SpecFormatOrdinal(e) * 8) + k
        r == SpecFormatMod(d * 1024, 14)
    IN  BitXor((d * 1024) + r, 21522)

\* bit b of the format word is in both format regions of the grid
FormatBitWritten(word, b) ==
    LET bit == ((word \div Pow2(b)) % 2) = 1
        c1 == format_cell_a(b)
        c2 == format_cell_b(b, size)
    IN  Module(c1[1], c1[2]) = bit /\ Module(c2[1], c2[2]) = bit

\* the grid after the function patterns and the data bytes, before any mask
Placed ==
    set_data_bytes(draw_function_patterns(empty_grid(size), version, self_ecl, size),
                   payload, size)

\* every data cell of the grid is the placed module under mask k
MaskedBy(placed, k) ==
    \A y \in 0..(size - 1), x \in 0..(size - 1) :
        isfunction[y + 1][x + 1]
            \/ Module(x, y) = (placed.blocks[y + 1][x + 1] # mask_collection(k, x, y))

\* the mask has been chosen by the loop over the eight candidates
MaskChosen == min_penalty # -1

\* C8: after an encode whose mask k was chosen automatically, both format
\* regions hold the 15 bits of the format word of the selected (upgraded)
\* level and k, and k is the mask the data cells carry.
C8_FormatBitsOfSelectedLevelAndMask ==
    (pc = "done" /\ MaskChosen)
        => /\ mask \in 0..7
           /\ \A b \in 0..14 : FormatBitWritten(SpecFormatWord(self_ecl, mask), b)
           /\ LET placed == Placed
              IN  Then(placed, MaskedBy(placed, mask))

\* C8 witness: an encode has ended with a level stronger than the one asked
\* and a mask other than 0.
C8_Witness ==
    /\ pc = "done" /\ MaskChosen
    /\ self_ecl # ecl
    /\ mask > 0

\* the penalty of candidate k: the placed grid, mask k applied, then the
\* format bits of k written, then scored
CandidatePenalty(placed, k) ==
    LET masked == apply_mask(placed, k, size)
    IN  Then(masked,
             LET formatted == set_format_bits(masked, self_ecl, k, size)
             IN  Then(formatted, get_penalty(formatted.blocks, size)))

\* the penalties of the eight candidates
CandidatePenalties(placed) ==
    Then(placed, Items([k \in 1..8 |-> CandidatePenalty(placed, k - 1)]))

\* m is the candidate of lowest penalty and, among equals, the lowest index
LowestFirst(ps, m) ==
    \A k \in 0..7 :
        /\ ps[m + 1] <= ps[k + 1]
        /\ (ps[k + 1] = ps[m + 1]) => m <= k

\* C9: when the loop over the candidates 0..7 ends, the last penalty is the
\* one of candidate 7, the chosen mask has the lowest penalty and is the
\* lowest index among those of that penalty, each penalty being that of the
\* placed grid with the candidate's mask applied and its format bits written.
C9_LowestPenaltyLowestIndex ==
    (pc = "final_apply" /\ MaskChosen)
        => LET ps == CandidatePenalties(Placed)
           IN  Then(ps,
                    /\ i = 7
                    /\ penalty = ps[8]
                    /\ mask \in 0..7
                    /\ min_penalty = ps[mask + 1]
                    /\ LowestFirst(ps, mask))

\* C9 witness: the loop has ended on a mask other than 0 whose penalty a
\* later candidate equals.
C9_Witness ==
    /\ pc = "final_apply" /\ MaskChosen
    /\ mask > 0
    /\ LET ps == CandidatePenalties(Placed)
       IN  Then(ps, \E k \in (mask + 1)..7 : ps[k + 1] = min_penalty)

\* C10: the grid that two applications of the same mask leave is the grid
\* they started from, modules and function flags.
C10_MaskTwiceIsIdentity ==
    (pc = "returned") => ret[2] = call.grid

\* C10 witness: the first application has changed modules of a grid that
\* has function cells the mask would have changed, and the second has run.
C10_Witness ==
    /\ pc = "returned"
    /\ ret[1].blocks # call.grid.blocks
    /\ \E y \in 0..(call.size - 1), x \in 0..(call.size - 1) :
          /\ call.grid.isfunction[y + 1][x + 1]
          /\ mask_collection(call.mask_index, x, y)

\* the predicate m_k(x, y) of the eight-entry mask table
SpecMaskPredicate(k, x, y) ==
    IF k = 0 THEN (x + y) % 2 = 0
    ELSE IF k = 1 THEN y % 2 = 0
    ELSE IF k = 2 THEN x % 3 = 0
    ELSE IF k = 3 THEN (x + y) % 3 = 0
    ELSE IF k = 4 THEN ((x \div 3) + (y \div 2)) % 2 = 0
    ELSE IF k = 5 THEN ((x * y) % 2) + ((x * y) % 3) = 0
    ELSE IF k = 6 THEN (((x * y) % 2) + ((x * y) % 3)) % 2 = 0
    ELSE (((x + y) % 2) + ((x * y) % 3)) % 2 = 0

\* C11: one application of mask k changes the module at (x, y) exactly when
\* the cell is not a function cell and m_k(x, y) holds; function cells keep
\* their module and the grid of function flags is the one before the call.
C11_MaskFlipsExactlyDataCellsOfPredicate ==
    (pc = "apply_mask_again")
        => /\ ret[1].isfunction = call.grid.isfunction
           /\ \A y \in 0..(call.size - 1), x \in 0..(call.size - 1) :
                (ret[1].blocks[y + 1][x + 1] # call.grid.blocks[y + 1][x + 1])
                    <=> (/\ ~call.grid.isfunction[y + 1][x + 1]
                         /\ SpecMaskPredicate(call.mask_index, x, y))

\* C11 witness: a mask has been applied to a grid that has a function cell
\* on which its predicate holds, a data cell on which it holds and a data
\* cell on which it does not.
C11_Witness ==
    /\ pc = "apply_mask_again"
    /\ \E y \in 0..(call.size - 1), x \in 0..(call.size - 1) :
          /\ call.grid.isfunction[y + 1][x + 1]
          /\ SpecMaskPredicate(call.mask_index, x, y)
    /\ \E y \in 0..(call.size - 1), x \in 0..(call.size - 1) :
          /\ ~call.grid.isfunction[y + 1][x + 1]
          /\ SpecMaskPredicate(call.mask_index, x, y)
          /\ ret[1].blocks[y + 1][x + 1] # call.grid.blocks[y + 1][x + 1]
    /\ \E y \in 0..(call.size - 1), x \in 0..(call.size - 1) :
          /\ ~call.grid.isfunction[y + 1][x + 1]
          /\ ~SpecMaskPredicate(call.mask_index, x, y)

\* the steps of QR.__init__ that follow draw_function_patterns
AfterDrawing ==
    pc \in {"prepare", "place", "mask", "trial_apply", "trial_format", "trial_score",
            "trial_unapply", "final_apply", "final_format", "done"}

\* the alignment positions of version v >= 2: 6 and size - 7 - k * step for
\* k = 0 .. n - 2, with n = v / 7 + 2 and
\* step = ((v * 8 + 3 * n + 5) / (4 * n - 4)) * 2
SpecAlignmentPositions(v, n) ==
    LET stripes == (v \div 7) + 2
        step == ((((v * 8) + (3 * stripes) + 5)) \div ((4 * stripes) - 4)) * 2
    IN  {6} \cup {n - 7 - (k * step) : k \in 0..(stripes - 2)}

\* (x, y) is a cell of a functional pattern of version v, side n: timing,
\* a finder with its separator, an alignment pattern, a format cell or the
\* dark module, version information
SpecFunctionCell(x, y, v, n) ==
    \/ x = 6 \/ y = 6
    \/ (x <= 7 /\ y <= 7) \/ (x >= n - 8 /\ y <= 7) \/ (x <= 7 /\ y >= n - 8)
    \/ /\ v >= 2
       /\ \E cx \in SpecAlignmentPositions(v, n), cy \in SpecAlignmentPositions(v, n) :
            /\ <<cx, cy>> \notin {<<6, 6>>, <<6, n - 7>>, <<n - 7, 6>>}
            /\ cx - 2 <= x /\ x <= cx + 2
            /\ cy - 2 <= y /\ y <= cy + 2
    \/ (x = 8 /\ (y <= 8 \/ y >= n - 8)) \/ (y = 8 /\ (x <= 8 \/ x >= n - 8))
    \/ /\ v >= 7
       /\ \/ (n - 11 <= x /\ x <= n - 9 /\ y <= 5)
          \/ (n - 11 <= y /\ y <= n - 9 /\ x <= 5)

\* C12: in every step from the end of the drawing of the functional patterns
\* to the end of the encoding (data placement, the trial masks and format
\* bits, the final mask and format bits), the cells flagged in isfunction are
\* exactly the cells of the functional patterns of the version.
C12_FunctionFlagsExactAndStable ==
    AfterDrawing
        => \A y \in 0..(size - 1), x \in 0..(size - 1) :
              isfunction[y + 1][x + 1] <=> SpecFunctionCell(x, y, version, size)

\* C12 witness: an encode of a version with version information has ended
\* after the eight trial masks, with data modules set dark.
C12_Witness ==
    /\ pc = "done" /\ MaskChosen
    /\ version >= 7
    /\ isfunction[1][size - 10]
    /\ \E y \in 0..(size - 1), x \in 0..(size - 1) :
          ~isfunction[y + 1][x + 1] /\ Module(x, y)

\* C13: in every step from the end of the drawing of the functional patterns
\* to the end of the encoding the module at (8, size - 8) is dark.
C13_DarkModuleStaysDark ==
    AfterDrawing => Module(8, size - 8)

\* C13 witness: a trial mask whose predicate holds on the dark module has
\* been applied and its format bits written, in a version with version
\* information, and the module is dark.
C13_Witness ==
    /\ pc = "trial_score"
    /\ version >= 7
    /\ mask_collection(i, 8, size - 8)
    /\ Module(8, size - 8)

\* the product of the polynomials a and b over GF(2), bits top..0 of b
RECURSIVE SpecCarrylessProduct(_, _, _)
SpecCarrylessProduct(a, b, top) ==
    IF top < 0 THEN 0
    ELSE BitXor(IF (b \div Pow2(top)) % 2 = 1 THEN a * Pow2(top) ELSE 0,
                SpecCarrylessProduct(a, b, top - 1))

\* the remainder of the polynomial p, of degree at most top, modulo 0x11D
RECURSIVE SpecModGenerator(_, _)
SpecModGenerator(p, top) ==
    IF top < 8 THEN p
    ELSE SpecModGenerator(IF (p \div Pow2(top)) % 2 = 1
                          THEN BitXor(p, 285 * Pow2(top - 8))
                          ELSE p,
                          top - 1)

\* the product of a and b in GF(2^8) under the polynomial 0x11D
SpecGfMul(a, b) == SpecModGenerator(SpecCarrylessProduct(a, b, 7), 14)

LastCall == call[Len(call)]

\* bit k of the non-negative value v
SpecBit(v, k) == (v \div (2 ^ k)) % 2

\* the value v can be written with n bits
SpecFitsWidth(v, n) == n >= 0 /\ 0 <= v /\ v < 2 ^ n

\* the last call was an append_bits that returned
Appended ==
    /\ pc \in {"append_bits_again", "convert_to_bytes"}
    /\ LastCall.method = "append_bits"

\* C15: an append of a value that fits its width n returns, and leaves the
\* earlier bits followed by the n bits of the value, highest first; a
\* convert_to_bytes that returns gives one byte for every eight bits, bit
\* 8i+j of the buffer being bit 7-j of byte i, so that a value appended with
\* width 8 just before is the last byte.
C15_AppendAndBytesBitOrder ==
    /\ (Len(call) > 0 /\ LastCall.method = "append_bits"
            /\ SpecFitsWidth(LastCall.val, LastCall.n))
        => /\ Appended
           /\ Len(ret.self.data) = Len(ret.before) + LastCall.n
           /\ \A k \in 1..Len(ret.before) : ret.self.data[k] = ret.before[k]
           /\ \A j \in 0..(LastCall.n - 1) :
                ret.self.data[Len(ret.before) + 1 + j]
                    = SpecBit(LastCall.val, LastCall.n - 1 - j)
    /\ (pc = "converted")
        => /\ Len(ret.bytes) * 8 = Len(ret.self.data)
           /\ \A b \in 0..(Len(ret.bytes) - 1), j \in 0..7 :
                SpecBit(ret.bytes[b + 1], 7 - j) = ret.self.data[(8 * b) + j + 1]
           /\ (call[Len(call) - 1].n = 8)
                => ret.bytes[Len(ret.bytes)] = call[Len(call) - 1].val

\* C15 witness: a value that is not a palindrome in binary has been appended
\* with width 8 after earlier bits, and the buffer of two bytes converted.
C15_Witness ==
    /\ pc = "converted"
    /\ Len(ret.bytes) = 2
    /\ call[2].n = 8 /\ call[2].val = 165
    /\ call[1].n = 8 /\ call[1].val = 16
    /\ ret.bytes = <<16, 165>>

\* C16: an append_bits with a negative width or a value of 2^n or more
\* raises, a convert_to_bytes of a length that is not a multiple of 8
\* raises, and after a raise the bit list is the one before the call.
C16_MisuseRaisesAndKeepsBits ==
    /\ (Len(call) > 0 /\ LastCall.method = "append_bits"
            /\ (LastCall.n < 0 \/ LastCall.val >= 2 ^ LastCall.n))
        => (pc = "error" /\ err = "ValueError")
    /\ (Len(call) > 0 /\ LastCall.method = "convert_to_bytes"
            /\ Len(ret.before) % 8 # 0)
        => (pc = "error" /\ err = "ValueError")
    /\ (pc = "error") => (ret.self.data = ret.before /\ ret.bytes = <<>>)

\* C16 witness: an append_bits of the value 2^n with a width n > 0 has
\* raised on a buffer that holds bits.
C16_Witness ==
    /\ pc = "error" /\ err = "ValueError"
    /\ Len(ret.self.data) > 0
    /\ LastCall.method = "append_bits"
    /\ LastCall.n > 0
    /\ LastCall.val = 2 ^ LastCall.n

\* the width of the character count: 8 bits for versions 1..9, 16 bits for
\* versions 10..40
SpecCountWidth(v) == IF v <= 9 THEN 8 ELSE 16

\* bit k (0 the first) of the payload of the bytes d for version v, level e:
\* 0100, the length, the bytes, the terminator and the zero bits up to the
\* byte boundary, then 0xEC and 0x11 in turn
SpecPayloadBit(k, d, v, e) ==
    LET w == SpecCountWidth(v)
        used == 4 + w + (8 * Len(d))
        capacity_bits == get_capacity(v, e) * 8
        terminated == used + (IF capacity_bits - used < 4 THEN capacity_bits - used ELSE 4)
        aligned == terminated + ((8 - (terminated % 8)) % 8)
    IN  IF k < 4 THEN SpecBit(4, 3 - k)
        ELSE IF k < 4 + w THEN SpecBit(Len(d), w - 1 - (k - 4))
        ELSE IF k < used THEN SpecBit(d[((k - 4 - w) \div 8) + 1], 7 - ((k - 4 - w) % 8))
        ELSE IF k < aligned THEN 0
        ELSE SpecBit(IF ((k - aligned) \div 8) % 2 = 0 THEN 236 ELSE 17,
                     7 - ((k - aligned) % 8))

\* the payload d is made of bytes and fits version v at level e
SpecEncodable(d, v, e) ==
    /\ \A k \in 1..Len(d) : d[k] \in 0..255
    /\ 4 + SpecCountWidth(v) + (8 * Len(d)) <= get_capacity(v, e) * 8

\* C17: for a payload of bytes that fits the version at the caller's level,
\* pad_and_terminate raises nothing and returns as many bytes as the data
\* capacity of the version and level, whose bits are 0100, the length in 8
\* or 16 bits, the data bytes, the terminator and alignment zeros and the
\* pad bytes 0xEC, 0x11 in turn.
C17_PaddedPayloadLayout ==
    /\ (pc = "error" /\ err = "ValueError" /\ InputsValid)
        => ~SpecEncodable(data, minversion, ecl)
    /\ (pc = "draw")
        => /\ SpecEncodable(data, version, ecl)
           /\ Len(encoded_payload) = get_capacity(version, ecl)
           /\ \A k \in 0..((8 * Len(encoded_payload)) - 1) :
                SpecBit(encoded_payload[(k \div 8) + 1], 7 - (k % 8))
                    = SpecPayloadBit(k, data, version, ecl)

\* C17 witness: a payload with a 16-bit length has been padded with at least
\* two pad bytes, the last of them 0x11.
C17_Witness ==
    /\ pc = "draw"
    /\ version >= 10
    /\ Len(data) > 0
    /\ encoded_payload[Len(encoded_payload) - 1] = 236
    /\ encoded_payload[Len(encoded_payload)] = 17

\* get_penalty has scored the grid: penalty is the score of blocks
Scored == pc = "trial_unapply"

\* the length of the run of identical modules that starts at item s of line
RECURSIVE SpecRunLength(_, _)
SpecRunLength(line, s) ==
    IF s < Len(line) /\ line[s + 1] = line[s] THEN 1 + SpecRunLength(line, s + 1) ELSE 1

\* rule 1 on one line: 3 + (L - 5) for every maximal run of length L >= 5
SpecLineRuns(line) ==
    LET score == [s \in 1..Len(line) |->
                    IF s = 1 \/ line[s - 1] # line[s]
                    THEN LET L == SpecRunLength(line, s)
                         IN  IF L >= 5 THEN 3 + (L - 5) ELSE 0
                    ELSE 0]
    IN  SumTo(score, 1, Len(line))

\* rule 1 on the grid b of side n: every row and every column
SpecRule1(b, n) ==
    LET rows == [y \in 1..n |-> SpecLineRuns(b[y])]
        cols == [x \in 1..n |-> SpecLineRuns([y \in 1..n |-> b[y][x]])]
    IN  SumTo(rows, 1, n) + SumTo(cols, 1, n)

\* the penalties of get_penalty with the one of finder-like patterns at 0:
\* what get_bar_penalty then returns is its sum over the runs of hist
run_penalties == <<3, 3, 0, 10>>

\* the part of row_res + col_res of get_penalty that comes from runs
RunComponent(b, n) ==
    LET rows == Items([y \in 1..n |->
                    get_bar_penalty(<<Len(b[y]) > 0>>, run_penalties, n)])
        cols == Items([x \in 1..n |->
                    get_bar_penalty(Items([y \in 1..n |-> b[y][x]]), run_penalties, n)])
    IN  SumTo(rows, 1, n) + SumTo(cols, 1, n)

\* C18, as the specification states it: when a candidate has been scored,
\* the part of its penalty that comes from runs is the sum of 3 + (L - 5)
\* over the maximal runs of length L >= 5 of every row and column.
C18_Original ==
    Scored => RunComponent(blocks, size) = SpecRule1(blocks, size)

\* the number of positions (x, y), 0 <= x, y < n - 1, whose 2x2 block of
\* modules is of one colour
SpecUniformSquares(b, n) ==
    Cardinality({c \in (0..(n - 2)) \X (0..(n - 2)) :
        /\ b[c[2] + 1][c[1] + 1] = b[c[2] + 1][c[1] + 2]
        /\ b[c[2] + 1][c[1] + 1] = b[c[2] + 2][c[1] + 1]
        /\ b[c[2] + 1][c[1] + 1] = b[c[2] + 2][c[1] + 2]})

\* C19, as the specification states it: when a candidate has been scored,
\* the part of its penalty that comes from 2x2 blocks is 3 times the number
\* of 2x2 blocks of one colour.
C19_Original ==
    Scored => get_square_penalty(blocks, lookup_penalties, size)
                = 3 * SpecUniformSquares(blocks, size)

\* the number of dark modules of the grid b of side n
SpecDark(b, n) == Cardinality({c \in (1..n) \X (1..n) : b[c[1]][c[2]]})

\* 0.45 - 0.05 k <= dark / total <= 0.55 + 0.05 k, in twentieths of total
SpecBalanced(dark, total, k) ==
    /\ (9 - k) * total <= 20 * dark
    /\ 20 * dark <= (11 + k) * total

\* C20: the balance penalty of a grid is 10 k for the smallest k >= 0 whose
\* band 0.45 - 0.05 k .. 0.55 + 0.05 k holds the ratio of dark modules, and
\* that k is at most 9.
C20_BalanceIsTenTimesSmallestBand ==
    (pc = "balance_scored")
        => LET dark == SpecDark(call.blocks, call.size)
               total == call.size * call.size
           IN  \E k \in 0..9 :
                  /\ ret[1] = 10 * k
                  /\ SpecBalanced(dark, total, k)
                  /\ \A j \in 0..(k - 1) : ~SpecBalanced(dark, total, j)

\* C20 witness: a grid whose ratio of dark modules is exactly 0.35, the
\* lower end of the band of k = 2, has been scored 20.
C20_Witness ==
    /\ pc = "balance_scored"
    /\ call.size = 10
    /\ SpecDark(call.blocks, call.size) = 35
    /\ ret[1] = 20

\* the call of genqr inside gen_qr returned a symbol
EncodingSucceeded == size > 0 /\ payload # <<>> /\ err \notin {"ValueError", "CapacityError", "IndexError"}

\* C21 as stated: when encoding succeeds and the output path can be written,
\* gen_qr ends with the image saved and the success log, and the error exit
\* with status 1 is taken only when encoding or saving is invalid
C21_Original ==
    pc = "exit" =>
        /\ (EncodingSucceeded /\ call.output_ok) =>
               (ret.status = 0 /\ ret.log = "success" /\ Len(ret.saved) = 1)
        /\ ret.status = 1 => (~EncodingSucceeded \/ ~call.output_ok)

\* the bitwise sum (xor) of two bytes
SpecXor8(a, b) ==
    (((a + b) % 2)
     + (2 * (((a \div 2) + (b \div 2)) % 2))
     + (4 * (((a \div 4) + (b \div 4)) % 2))
     + (8 * (((a \div 8) + (b \div 8)) % 2)))
    + ((16 * (((a \div 16) + (b \div 16)) % 2))
       + (32 * (((a \div 32) + (b \div 32)) % 2))
       + (64 * (((a \div 64) + (b \div 64)) % 2))
       + (128 * (((a \div 128) + (b \div 128)) % 2)))

\* a times x in GF(2^8): x^8 = x^4 + x^3 + x^2 + 1 under 0x11D
SpecDouble(a) == IF a >= 128 THEN SpecXor8((2 * a) - 256, 29) ELSE 2 * a

\* the product of a and b in GF(2^8): the sum of a x^k over the bits k of b
SpecFieldProduct(a, b) ==
    LET a1 == SpecDouble(a)
        a2 == SpecDouble(a1)
        a3 == SpecDouble(a2)
        a4 == SpecDouble(a3)
        a5 == SpecDouble(a4)
        a6 == SpecDouble(a5)
        a7 == SpecDouble(a6)
        term(k, ak) == IF SpecBit(b, k) = 1 THEN ak ELSE 0
    IN  SpecXor8(SpecXor8(SpecXor8(term(0, a), term(1, a1)),
                          SpecXor8(term(2, a2), term(3, a3))),
                 SpecXor8(SpecXor8(term(4, a4), term(5, a5)),
                          SpecXor8(term(6, a6), term(7, a7))))

\* a to the power k in GF(2^8), by squaring
RECURSIVE SpecGfPow(_, _)
SpecGfPow(a, k) ==
    IF k = 0 THEN 1
    ELSE LET h == SpecGfPow(a, k \div 2)
             sq == Then(h, SpecFieldProduct(h, h))
         IN  Then(sq, IF k % 2 = 1 THEN SpecFieldProduct(sq, a) ELSE sq)

\* the value at x of the polynomial over GF(2^8) whose coefficients are
\* s[lo..hi], highest power first (Horner's rule)
RECURSIVE SpecHorner(_, _, _, _)
SpecHorner(s, lo, hi, x) ==
    IF lo > hi THEN 0
    ELSE IF lo = hi THEN s[lo]
    ELSE LET high == SpecHorner(s, lo, hi - 1, x)
         IN  Then(high, SpecXor8(SpecFieldProduct(high, x), s[hi]))

\* the same value, the polynomial cut in two halves while it is long:
\* p(x) = high(x) * x^(number of low coefficients) + low(x)
RECURSIVE SpecPolyEval(_, _, _, _)
SpecPolyEval(s, lo, hi, x) ==
    IF hi - lo < 8 THEN SpecHorner(s, lo, hi, x)
    ELSE LET mid == (lo + hi) \div 2
             high == SpecPolyEval(s, lo, mid, x)
             low == SpecPolyEval(s, mid + 1, hi, x)
             shift == SpecGfPow(x, hi - mid)
         IN  Then(high, Then(low, Then(shift, SpecXor8(SpecFieldProduct(high, shift), low))))

\* the codeword s has the roots alpha^0 .. alpha^(d-1), alpha = 2
SpecRsCodeword(s, d) ==
    \A r \in 0..(d - 1) :
        LET root == SpecGfPow(2, r)
        IN  Then(root, SpecPolyEval(s, 1, Len(s), root) = 0)

\* B, E, D, S and Z of version v at level e
SpecBlockCount(v, e) == get_num_ec_piles(v, e)
SpecEccLen(v, e) == get_ecp_per_pile(v, e)
SpecDataLen(v, e) ==
    (SpecRawCapacityBits(v) \div 8) - (SpecEccLen(v, e) * SpecBlockCount(v, e))
SpecShortLen(v, e) == SpecDataLen(v, e) \div SpecBlockCount(v, e)
SpecShortCount(v, e) ==
    SpecBlockCount(v, e) - (SpecDataLen(v, e) % SpecBlockCount(v, e))

\* the number of data bytes of block b (from 0) and the index of its first
SpecBlockLen(b, v, e) ==
    IF b < SpecShortCount(v, e) THEN SpecShortLen(v, e) ELSE SpecShortLen(v, e) + 1
SpecBlockStart(b, v, e) ==
    (b * SpecShortLen(v, e))
        + (IF b > SpecShortCount(v, e) THEN b - SpecShortCount(v, e) ELSE 0)

\* the data bytes of block b: consecutive codewords of the padded payload
SpecBlockData(d, b, v, e) ==
    SubSeq(d, SpecBlockStart(b, v, e) + 1,
           SpecBlockStart(b, v, e) + SpecBlockLen(b, v, e))

\* the blocks have been cut and interleaved
Split == pc = "place"

\* C22: prepare_payload cuts the data codewords consecutively into B blocks,
\* blocks 0..Z-1 of S data bytes and blocks Z..B-1 of S+1, D bytes in all,
\* and the E error correction bytes of a block are the Reed-Solomon
\* remainder of its own data bytes, the dummy byte of a short block left out.
C22_BlockSplitAndEcc ==
    Split =>
        LET v == version
            e == self_ecl
            B == SpecBlockCount(v, e)
            E == SpecEccLen(v, e)
            S == SpecShortLen(v, e)
            Z == SpecShortCount(v, e)
            piles == prepare_piles(encoded_payload, v, e)
        IN  Then(piles,
            /\ Len(piles) = B
            /\ (Z * S) + ((B - Z) * (S + 1)) = SpecDataLen(v, e)
            /\ SpecBlockStart(B - 1, v, e) + SpecBlockLen(B - 1, v, e)
                   = SpecDataLen(v, e)
            /\ \A b \in 0..(B - 1) :
                 LET pile == piles[b + 1]
                     n == SpecBlockLen(b, v, e)
                     dat == SpecBlockData(encoded_payload, b, v, e)
                     ecc == SubSeq(pile, S + 2, Len(pile))
                 IN  /\ Len(pile) = S + 1 + E
                     /\ Len(dat) = n
                     /\ SubSeq(pile, 1, n) = dat
                     /\ (b < Z) => pile[S + 1] = 0
                     /\ Len(ecc) = E
                     /\ Then(dat \o ecc, SpecRsCodeword(dat \o ecc, E)))

\* C22 witness: a symbol of several blocks, short ones and long ones, has
\* been split.
C22_Witness ==
    /\ Split
    /\ SpecBlockCount(version, self_ecl) > 1
    /\ SpecShortCount(version, self_ecl) \in 1..(SpecBlockCount(version, self_ecl) - 1)
    /\ \E k \in DOMAIN encoded_payload : encoded_payload[k] \notin {0, 17, 236}

\* the index in the interleaved stream of data byte k of block b: S rounds
\* over all B blocks, then a round over the long blocks only
SpecDataIndex(k, b, v, e) ==
    IF k < SpecShortLen(v, e)
    THEN (k * SpecBlockCount(v, e)) + b
    ELSE (SpecShortLen(v, e) * SpecBlockCount(v, e)) + (b - SpecShortCount(v, e))

\* the index in the interleaved stream of error correction byte k of block b
SpecEccIndex(k, b, v, e) == SpecDataLen(v, e) + (k * SpecBlockCount(v, e)) + b

\* C23: the interleaved stream is byte i of every block b in order for
\* i = 0..S, where the block has such a byte (the short blocks have none at
\* i = S and their dummy byte is not emitted), then error correction byte i
\* of every block b in order for i = 0..E-1.
C23_InterleaveOrder ==
    Split =>
        LET v == version
            e == self_ecl
            B == SpecBlockCount(v, e)
            E == SpecEccLen(v, e)
            div == create_rs_divisor(E)
        IN  Then(div,
            /\ Len(payload) = SpecDataLen(v, e) + (E * B)
            /\ \A b \in 0..(B - 1) :
                 LET dat == SpecBlockData(encoded_payload, b, v, e)
                     ecc == remainder(div, dat)
                 IN  Then(ecc,
                     /\ \A k \in 0..(SpecBlockLen(b, v, e) - 1) :
                            payload[SpecDataIndex(k, b, v, e) + 1] = dat[k + 1]
                     /\ \A k \in 0..(E - 1) :
                            payload[SpecEccIndex(k, b, v, e) + 1] = ecc[k + 1]))

\* C23 witness: short and long blocks that differ in their data and in
\* their error correction bytes have been interleaved.
C23_Witness ==
    /\ Split
    /\ SpecBlockCount(version, self_ecl) > 1
    /\ SpecShortCount(version, self_ecl) \in 1..(SpecBlockCount(version, self_ecl) - 1)
    /\ payload[1] # payload[2]
    /\ payload[SpecDataLen(version, self_ecl) + 1]
           # payload[SpecDataLen(version, self_ecl) + 2]

\* the data bytes have been placed and no mask applied yet
JustPlaced == pc = "mask"

\* the right column of column pair p (from 0, rightmost first): size-1,
\* size-3, ... down to 7, then 5, 3, 1
SpecRightColumn(p, n) ==
    IF n - 1 - (2 * p) >= 7 THEN n - 1 - (2 * p) ELSE n - 2 - (2 * p)

\* the k-th cell (from 1) of the placement path of a symbol of side n
SpecPathCell(k, n) ==
    LET p == (k - 1) \div (2 * n)
        r == ((k - 1) % (2 * n)) \div 2
        right == SpecRightColumn(p, n)
        upward == ((right + 1) \div 2) % 2 = 0
    IN  <<right - ((k - 1) % 2), IF upward THEN n - 1 - r ELSE r>>

\* the placement path: (size - 1) / 2 column pairs of 2 * size cells
SpecPath(n) == [k \in 1..((n - 1) * n) |-> SpecPathCell(k, n)]

\* C24: the column pairs are visited from right to left, never column 6,
\* upward when ((x+1) & 2) = 0 for the right column x and downward
\* otherwise, right column first in a row; the n-th non-function cell of the
\* path holds bit 7 - (n mod 8) of byte n div 8 of the interleaved stream and
\* the function cells keep their value.
C24_PlacementPath ==
    JustPlaced =>
        LET n == size
            drawn == draw_function_patterns(empty_grid(n), version, self_ecl, n)
            path == SpecPath(n)
            free == SelectSeq(path, LAMBDA c : ~isfunction[c[2] + 1][c[1] + 1])
        IN  Then(drawn, Then(free,
            /\ {path[k] : k \in DOMAIN path}
                   = {c \in (0..(n - 1)) \X (0..(n - 1)) : c[1] # 6}
            /\ isfunction = drawn.isfunction
            /\ \A k \in DOMAIN free :
                  (k - 1 < 8 * Len(payload))
                      => Module(free[k][1], free[k][2])
                             = (SpecBit(payload[((k - 1) \div 8) + 1],
                                        7 - ((k - 1) % 8)) = 1)
            /\ \A y \in 0..(n - 1), x \in 0..(n - 1) :
                  isfunction[y + 1][x + 1]
                      => Module(x, y) = drawn.blocks[y + 1][x + 1]))

\* C24 witness: the stream of a version with version information has been
\* placed, with dark data modules on both sides of the timing column and at
\* the top of the first pair and the bottom of the second.
C24_Witness ==
    /\ JustPlaced
    /\ version >= 7
    /\ Len(payload) > 0
    /\ \E y \in 0..(size - 1) : ~isfunction[y + 1][5] /\ Module(4, y)
    /\ \E y \in 0..(size - 1) : ~isfunction[y + 1][size] /\ Module(size - 1, y)

\* the product of the polynomial with coefficients c under an implicit
\* leading 1 by (x - a), in the same form; minus is plus in GF(2^8)
SpecTimesRoot(c, a) ==
    LET full == <<1>> \o c
        m == Len(full)
    IN  Items([j \in 1..m |->
                IF j < m THEN SpecXor8(full[j + 1], SpecFieldProduct(a, full[j]))
                ELSE SpecFieldProduct(a, full[j])])

\* the product of c by (x - alpha^k) for k = lo..hi
RECURSIVE SpecTimesRoots(_, _, _)
SpecTimesRoots(c, lo, hi) ==
    IF lo > hi THEN c
    ELSE IF lo = hi
    THEN LET a == SpecGfPow(2, lo) IN Then(a, SpecTimesRoot(c, a))
    ELSE LET mid == (lo + hi) \div 2
             c1 == SpecTimesRoots(c, lo, mid)
         IN  Then(c1, SpecTimesRoots(c1, mid + 1, hi))

\* the generator of degree d: the product of (x - alpha^k) for k = 0..d-1
SpecGenerator(d) == SpecTimesRoots(<<>>, 0, d - 1)

\* C25: for every degree d in 1..255 the generator has length d and is the
\* coefficient list, leading 1 implicit, of the product of (x - alpha^i) for
\* i = 0..d-1; remainder(data) has length d, and data followed by it
\* vanishes at alpha^i for every i in 0..d-1.
C25_GeneratorAndRemainder ==
    /\ (pc = "error") => (call.degree < 1 \/ call.degree > 255)
    /\ (pc \in {"rs_ready", "rs_done"})
        => /\ call.degree \in 1..255
           /\ Len(ret.div) = call.degree
           /\ ret.div = SpecGenerator(call.degree)
    /\ (pc = "rs_done")
        => /\ Len(ret.rem) = call.degree
           /\ \A k \in DOMAIN ret.rem : ret.rem[k] \in 0..255
           /\ SpecRsCodeword(call.data \o ret.rem, call.degree)

\* C25 witness: the remainder of several bytes by the generator of the
\* largest degree has been computed and is not zero.
C25_Witness ==
    /\ pc = "rs_done"
    /\ call.degree = 255
    /\ Len(call.data) > 1
    /\ \E k \in DOMAIN ret.rem : ret.rem[k] # 0

\* the remainder of the polynomial p, of degree at most top, modulo 0x1F25
RECURSIVE SpecVersionMod(_, _)
SpecVersionMod(p, top) ==
    IF top < 12 THEN p
    ELSE SpecVersionMod(IF (p \div Pow2(top)) % 2 = 1
                        THEN BitXor(p, 7973 * Pow2(top - 12))
                        ELSE p,
                        top - 1)

\* (version << 12) | r, r the remainder of version * x^12 modulo 0x1F25
SpecVersionWord(v) == (v * 4096) + SpecVersionMod(v * 4096, 17)

\* the two cells of bit b of the version information: (size - 11 + b % 3,
\* b / 3) and its transpose
SpecVersionCell(b, n) == <<n - 11 + (b % 3), b \div 3>>

\* C26: for every version 7..40 the cell (size - 11 + i % 3, i / 3) and its
\* transpose hold bit i of (version << 12) | r, r the remainder of the
\* version extended by 12 zero bits modulo 0x1F25, for i = 0..17, and are
\* function cells; for the versions 1..6 these cells are not written: they
\* are not function cells, and light until the data is placed.
C26_VersionInformation ==
    AfterDrawing =>
        \A b \in 0..17 :
            LET c == SpecVersionCell(b, size)
            IN  IF version >= 7
                THEN /\ Module(c[1], c[2]) = (SpecBit(SpecVersionWord(version), b) = 1)
                     /\ Module(c[2], c[1]) = (SpecBit(SpecVersionWord(version), b) = 1)
                     /\ isfunction[c[2] + 1][c[1] + 1]
                     /\ isfunction[c[1] + 1][c[2] + 1]
                ELSE /\ ~isfunction[c[2] + 1][c[1] + 1]
                     /\ ~isfunction[c[1] + 1][c[2] + 1]
                     /\ (pc = "prepare")
                            => (~Module(c[1], c[2]) /\ ~Module(c[2], c[1]))

\* C26 witness: the functional patterns of version 40 have been drawn, the
\* lowest bit of its version information dark and the next one light
\* (40 << 12 | 0xC69 = 0x28C69).
C26_Witness ==
    /\ pc = "prepare"
    /\ version = 40
    /\ Module(size - 11, 0)
    /\ ~Module(size - 10, 0)

\* the functional patterns have just been drawn: no data module is set
JustDrawn == pc = "prepare"

\* the number of non-function cells of the grid
SpecFreeCells ==
    Cardinality({c \in (1..size) \X (1..size) : ~isfunction[c[1]][c[2]]})

\* the grid after the placement of a stream of n bytes, all bits 1, on the
\* grid just drawn
SpecFilled(n) == set_data_bytes(grid, Rep(255, n), size)

\* C27: for every version 1..40 the non-function cells left by the drawing
\* of the functional patterns are raw_capacity_bits(version) in number, at
\* least 8 * (raw_capacity_bits(version) / 8) and at most 7 more; placing a
\* stream of raw_capacity_bits(version) / 8 bytes writes all its bits on the
\* first non-function cells of the path, function cells consuming none, and
\* the non-function cells that remain stay light.
C27_FreeCellsAreRawCapacity ==
    JustDrawn =>
        LET raw == SpecRawCapacityBits(version)
            free == SelectSeq(SpecPath(size), LAMBDA c : ~isfunction[c[2] + 1][c[1] + 1])
        IN  /\ SpecFreeCells = raw
            /\ raw = get_num_data_bytes(version)
            /\ raw >= 8 * (raw \div 8)
            /\ raw - (8 * (raw \div 8)) <= 7
            /\ Len(free) = raw
            /\ \A k \in DOMAIN free : ~Module(free[k][1], free[k][2])
            /\ (version <= MaxPlaceVersion) =>
                   LET placed == SpecFilled(raw \div 8)
                   IN  Then(placed,
                       /\ placed.isfunction = isfunction
                       /\ \A k \in DOMAIN free :
                             placed.blocks[free[k][2] + 1][free[k][1] + 1]
                                 = (k <= 8 * (raw \div 8)))

\* C27 witness: the functional patterns of version 2 have been drawn,
\* leaving 359 non-function cells for 44 bytes and 7 remainder bits.
C27_Witness ==
    /\ JustDrawn
    /\ version = 2
    /\ SpecFreeCells = 359
    /\ SpecFreeCells - (8 * (SpecFreeCells \div 8)) = 7

\* the block and the offset in it of data byte k (from 0) of the blocks
\* taken one after the other: Z blocks of S bytes, then blocks of S + 1
SpecBlockOf(k, v, e) ==
    LET S == SpecShortLen(v, e)
        Z == SpecShortCount(v, e)
    IN  IF k < Z * S THEN <<k \div S, k % S>>
        ELSE <<Z + ((k - (Z * S)) \div (S + 1)), (k - (Z * S)) % (S + 1)>>

\* data byte k (from 0) of the blocks, read back from the interleaved stream
SpecConsumed(k, v, e) ==
    payload[SpecDataIndex(SpecBlockOf(k, v, e)[2], SpecBlockOf(k, v, e)[1], v, e) + 1]

\* C28: the payload is padded to the capacity of the caller's level and cut
\* into blocks with the selected level: the data bytes of the blocks are the
\* first data_capacity_bytes(version, selected level) bytes of the padded
\* payload, they are the payload encoded and padded to the capacity of the
\* selected level, and the padded payload is long enough for every block.
C28_SplitOfUpgradedLevel ==
    Split =>
        LET v == version
            D == get_capacity(v, self_ecl)
        IN  /\ Len(encoded_payload) = get_capacity(v, ecl)
            /\ D <= Len(encoded_payload)
            /\ D = SpecDataLen(v, self_ecl)
            /\ SpecEncodable(data, v, self_ecl)
            /\ \A k \in 0..(D - 1) :
                  /\ SpecConsumed(k, v, self_ecl) = encoded_payload[k + 1]
                  /\ \A b \in 0..7 :
                        SpecBit(SpecConsumed(k, v, self_ecl), 7 - b)
                            = SpecPayloadBit((8 * k) + b, data, v, self_ecl)

\* C28 witness: a payload padded for level L has been cut into the several
\* blocks of a stronger level, which leave pad bytes of the padded payload
\* unused.
C28_Witness ==
    /\ Split
    /\ ecl = "L" /\ self_ecl = "Q"
    /\ Len(data) > 0
    /\ SpecBlockCount(version, self_ecl) > 1
    /\ get_capacity(version, self_ecl) < Len(encoded_payload)

\* C29 as stated: get_penalty of a square grid equals get_penalty of its
\* transpose
C29_Original == (pc = "scored_both") => (ret[1] = ret[2])

\* no candidate mask is on the grid: before the first trial, between two
\* trials and after the last
BetweenTrials == pc \in {"mask", "trial_apply", "final_apply"}

\* every non-function cell holds the module that data placement wrote
DataAsPlaced(placed) ==
    \A y \in 0..(size - 1), x \in 0..(size - 1) :
        isfunction[y + 1][x + 1] \/ Module(x, y) = placed.blocks[y + 1][x + 1]

\* the symbol made from the placed grid by scoring the eight candidates on
\* copies and masking once with the first of the lowest penalty
SpecScratchSymbol(placed) ==
    LET ps == CandidatePenalties(placed)
        k == CHOOSE m \in 0..7 : LowestFirst(ps, m)
    IN  Then(ps, set_format_bits(apply_mask(placed, k, size), self_ecl, k, size))

\* C30: after each of the eight apply, score, unapply rounds every
\* non-function cell holds the module data placement wrote; at the end of
\* the encoding every non-function cell is its placed module xor m_k(x, y)
\* for the one chosen mask k, and the grid is the one that scoring each
\* candidate on a copy and masking once gives.
C30_TrialMasksLeaveNoResidue ==
    /\ BetweenTrials =>
           LET placed == Placed IN Then(placed, DataAsPlaced(placed))
    /\ (pc = "done") =>
           LET placed == Placed
           IN  Then(placed,
               /\ mask \in 0..7
               /\ \A y \in 0..(size - 1), x \in 0..(size - 1) :
                     isfunction[y + 1][x + 1]
                         \/ Module(x, y) = (placed.blocks[y + 1][x + 1]
                                                # SpecMaskPredicate(mask, x, y))
               /\ MaskChosen => grid = SpecScratchSymbol(placed))

\* C30 witness: the eight rounds have run on a grid with dark data modules
\* and the encoding has ended on a mask that is neither the first nor the
\* last candidate.
C30_Witness ==
    /\ pc = "done" /\ MaskChosen
    /\ i = 7
    /\ mask \in 1..6
    /\ \E y \in 0..(size - 1), x \in 0..(size - 1) :
          ~isfunction[y + 1][x + 1] /\ Module(x, y)

=============================================================================
